---- MODULE Spec2Model ----
(***************************************************************************)
(* jlv: the file access and view engine of src/file.go.                    *)
(*                                                                         *)
(* Bytes are one-character strings, a Go string or []byte is a sequence of *)
(* them.  A nil pointer is 0, an object is named by a positive number.     *)
(***************************************************************************)
EXTENDS Integers, Sequences, FiniteSets, TLC

VARIABLES
    source,     \* the bytes of the opened os.File
    pc,         \* "reading" (inside NewFile's read loop), "ready", "failed", "panic"
    off,        \* the read offset of the os.File during NewFile
    scan,       \* NewFile's locals pos and length
    index,      \* File.index: the line descriptors [start, len, cached]
    cache,      \* File.cache: [head, tail, len]
    items,      \* the cache items reachable from the File: id -> [m, l, n, p]
    err,        \* File.err
    knownTags,  \* File.knownTags
    views,      \* the chain of FileViews, root first: [parent, index, pos, name]
    ret,        \* what the last call did and returned
    srch,       \* the locals of a running Search / SearchTag loop
    acc,        \* history of the record accesses (for the cache properties)
    term,       \* the term structure of startTerm, the view it holds by its place in views
    inChan,     \* term.inChan: the chunks sent and not yet received
    io          \* the reader task and the main loop of startTerm: their positions,
                \* the reader's buffer, the terminal mode, the chunks read and received

vars == <<source, pc, off, scan, index, cache, items, err, knownTags, views, ret, srch, acc,
          term, inChan, io>>

----------------------------------------------------------------------------
(* Bounds of the model *)

\* longest byte source NewFile is run on step by step
MaxSrcLen == 5
\* most lines of a file of JSON records
MaxLines == 3
\* most FileViews in a chain (the root and its derived views)
MaxViews == 3
\* a Search loop is followed until some line has been examined this often
MaxVisits == 2
\* stand-in for cacheSize (1024 in src/file.go:14), small enough to overflow
cacheSize == 2
\* lines of the file the record cache is exercised on
CacheLines == 3
\* longest sequence of record accesses remembered
MaxAccesses == 4

\* stand-in for knownTagsDepth (500 in src/file.go:15), small enough for a
\* file to hold records NewFile did not look at
knownTagsDepth == 3

(* Program constants *)
bufSize == 1024

Nil == 0
NL == "\n"
QT == "\""

\* In(v), v being evaluated once
Let(v, In(_)) == CHOOSE y \in {In(x) : x \in {v}} : TRUE

Min(a, b) == IF a < b THEN a ELSE b
Range(s) == {s[i] : i \in DOMAIN s}

----------------------------------------------------------------------------
(* Go strings: byte order, strings.ToLower, strings.Index *)

\* the bytes the model uses, in ASCII order ("NUL" is byte 0, "ESC" byte 27, "DEL" byte 127)
Ascii == << "NUL", "\t", "\n", "\r", "ESC", " ", "!", "\"", "$", "(", "+", ",", "-", "/",
            "0", "1", "2", "3", "4", "5", "6", "7", "8", "9", ":", "?",
            "A", "B", "C", "D", "E", "F", "G", "H", "I", "J", "K", "L", "M",
            "N", "O", "P", "Q", "R", "S", "T", "U", "V", "W", "X", "Y", "Z",
            "[", "^", "_",
            "a", "b", "c", "d", "e", "f", "g", "h", "i", "j", "k", "l", "m",
            "n", "o", "p", "q", "r", "s", "t", "u", "v", "w", "x", "y", "z",
            "{", "}", "~", "DEL" >>

CodeOf == [c \in Range(Ascii) |-> CHOOSE i \in DOMAIN Ascii : Ascii[i] = c]

UpperFirst == CodeOf["A"]
LowerFirst == CodeOf["a"]

\* unicode.ToLower of one byte
LowerChar(c) ==
    IF CodeOf[c] >= UpperFirst /\ CodeOf[c] < UpperFirst + 26
    THEN Ascii[CodeOf[c] - UpperFirst + LowerFirst]
    ELSE c

\* strings.ToLower
ToLower(s) == [i \in DOMAIN s |-> LowerChar(s[i])]

\* Go's  a < b  on strings: bytewise, a proper prefix is smaller
RECURSIVE StrLessFrom(_, _, _)
StrLessFrom(a, b, i) ==
    IF i > Len(b) THEN FALSE
    ELSE IF i > Len(a) THEN TRUE
    ELSE IF a[i] # b[i] THEN CodeOf[a[i]] < CodeOf[b[i]]
    ELSE StrLessFrom(a, b, i + 1)

StrLess(a, b) == StrLessFrom(a, b, 1)
StrLessEq(a, b) == a = b \/ StrLess(a, b)

\* s[i..] starts with mask (i is 1-based)
HasAt(s, mask, i) ==
    /\ i + Len(mask) - 1 <= Len(s)
    /\ \A k \in 1..Len(mask) : s[i + k - 1] = mask[k]

\* strings.Index(s, mask) != -1
Contains(s, mask) == \E i \in 1..(Len(s) + 1) : HasAt(s, mask, i)

----------------------------------------------------------------------------
(* encoding/json, for the lines the model reads: a flat object of string   *)
(* values without escapes or white space, or text that is no JSON at all.  *)

EmptyMap == [k \in {} |-> <<>>]

MapPut(m, k, v) == [x \in DOMAIN m \cup {k} |-> IF x = k THEN v ELSE m[x]]

\* position of the first quote at or after i, 0 when there is none
RECURSIVE FindQuote(_, _)
FindQuote(b, i) ==
    IF i > Len(b) THEN 0
    ELSE IF b[i] = QT THEN i
    ELSE FindQuote(b, i + 1)

Slice(b, from, to) == [k \in 1..(to - from + 1) |-> b[from + k - 1]]

\* members of an object from position i on:  "key":"value"  then , or }
RECURSIVE ParseMembers(_, _, _)
ParseMembers(b, i, m) ==
    LET kq == IF i <= Len(b) /\ b[i] = QT THEN FindQuote(b, i + 1) ELSE 0
        vq == IF kq # 0 /\ kq + 2 <= Len(b) /\ b[kq + 1] = ":" /\ b[kq + 2] = QT
              THEN FindQuote(b, kq + 3) ELSE 0
        m1 == MapPut(m, Slice(b, i + 1, kq - 1), Slice(b, kq + 3, vq - 1))
    IN  IF vq = 0 \/ vq + 1 > Len(b) THEN [ok |-> FALSE, m |-> EmptyMap]
        ELSE IF b[vq + 1] = "}" THEN [ok |-> vq + 1 = Len(b), m |-> m1]
        ELSE IF b[vq + 1] = "," THEN ParseMembers(b, vq + 2, m1)
        ELSE [ok |-> FALSE, m |-> EmptyMap]

\* json.Unmarshal(b, &m) with m an empty map: the text is checked before
\* anything is stored, so an error leaves m empty
UnmarshalResult(r) ==
    IF r.ok THEN [m |-> r.m, err |-> "nil"] ELSE [m |-> EmptyMap, err |-> "json"]

Unmarshal(b) ==
    UnmarshalResult(IF Len(b) >= 2 /\ b[1] = "{"
                    THEN IF b[2] = "}" THEN [ok |-> Len(b) = 2, m |-> EmptyMap]
                         ELSE ParseMembers(b, 2, EmptyMap)
                    ELSE [ok |-> FALSE, m |-> EmptyMap])

\* the text of a flat object, from its members in order
RECURSIVE EncodeMembers(_, _)
EncodeMembers(fs, i) ==
    IF i > Len(fs) THEN <<>>
    ELSE (IF i > 1 THEN <<",">> ELSE <<>>)
         \o <<QT>> \o fs[i][1] \o <<QT, ":", QT>> \o fs[i][2] \o <<QT>>
         \o EncodeMembers(fs, i + 1)

Encode(fs) == <<"{">> \o EncodeMembers(fs, 1) \o <<"}">>

----------------------------------------------------------------------------
(* File: the line index, the record cache and the known tags *)

\* the File as one value, for the operators that thread it through calls
FS == [index |-> index, cache |-> cache, items |-> items, err |-> err,
       knownTags |-> knownTags]

SetFS(fs) ==
    /\ index' = fs.index
    /\ cache' = fs.cache
    /\ items' = fs.items
    /\ err' = fs.err
    /\ knownTags' = fs.knownTags

EmptyFS == [index |-> <<>>, cache |-> [head |-> Nil, tail |-> Nil, len |-> 0],
            items |-> <<>>, err |-> "nil", knownTags |-> <<>>]

\* one pass of NewFile's inner loop, at byte i of the source (1-based):
\* st is [index, pos, length]
ScanByte(src, st, i) ==
    LET st1 == IF src[i] = NL
               THEN [index |-> Append(st.index, [start |-> st.pos, len |-> st.length,
                                                 cached |-> Nil]),
                     pos |-> st.pos + st.length + 1,
                     length |-> -1]
               ELSE st
    IN  [st1 EXCEPT !.length = @ + 1]

\* NewFile's inner loop over one chunk, the bytes i..to of the source, in
\* order.  The range is halved and the left half's result is looked at before
\* the right half runs, which keeps TLC's evaluation shallow; length is never
\* negative after a pass.
RECURSIVE ScanChunk(_, _, _, _)
ScanChunk(src, st, i, to) ==
    IF i > to THEN st
    ELSE IF i = to THEN ScanByte(src, st, i)
    ELSE LET mid == (i + to) \div 2
             left == ScanChunk(src, st, i, mid)
         IN  IF left.length >= 0 THEN ScanChunk(src, left, mid + 1, to) ELSE left

\* File.LinesCount
FileLinesCount(fs) == Len(fs.index)

\* File.bytes(n): [fs, ok, b]; ok is FALSE for the nil slice
bytes(src, fs, n) ==
    IF n < 0 \/ n >= Len(fs.index) THEN [fs |-> fs, ok |-> FALSE, b |-> <<>>]
    ELSE LET l == fs.index[n + 1]
         IN  IF l.len > 0 /\ l.start >= Len(src)
             THEN [fs |-> [fs EXCEPT !.err = "EOF"], ok |-> FALSE, b |-> <<>>]
             ELSE [fs |-> [fs EXCEPT !.err = "nil"], ok |-> TRUE,
                   b |-> Slice(src, l.start + 1, Min(l.start + l.len, Len(src)))]

NewId(h) == Len(h) + 1

\* cache.item(forLine) on the cache value c and the heap h of items: what the
\* method leaves in its receiver c, in the heap and in forLine.cached, and the
\* item it returns.  forLine is the number of the line the descriptor
\* describes.
cacheItem(c, h, forLine) ==
    IF c.len < cacheSize
    THEN LET id == NewId(h)
         IN  [c |-> [head |-> id,
                     tail |-> IF c.tail = Nil THEN id ELSE c.tail,
                     len |-> c.len + 1],
              h |-> Append(h, [m |-> EmptyMap, l |-> forLine, n |-> c.head, p |-> Nil]),
              cached |-> id, it |-> id, evicted |-> -1, panic |-> FALSE]
    ELSE IF c.head = Nil \/ c.tail = Nil \/ h[c.head].p = Nil
    THEN \* c.head.p or c.tail.n dereferences nil
         [c |-> c, h |-> h, cached |-> Nil, it |-> Nil, evicted |-> -1, panic |-> TRUE]
    ELSE LET it == c.tail
             tl == h[c.head].p
             h1 == [h EXCEPT ![tl].n = Nil]
             h2 == [h1 EXCEPT ![it].n = c.head, ![it].p = Nil, ![it].l = forLine]
         IN  [c |-> [head |-> it, tail |-> tl, len |-> c.len],
              h |-> h2, cached |-> it, it |-> it, evicted |-> h[it].l, panic |-> FALSE]

\* what json.Unmarshal, having decoded u, leaves in a map that held m0
MergeInto(m0, u) ==
    [m |-> [k \in DOMAIN m0 \cup DOMAIN u.m |->
                IF k \in DOMAIN u.m THEN u.m[k] ELSE m0[k]],
     err |-> u.err]

UnmarshalInto(b, m0) == MergeInto(m0, Unmarshal(b))

\* the items the File still refers to after cache.item ran on copies: those it
\* had, as the call left them
KeptItems(h0, ci, um) ==
    [id \in DOMAIN h0 |-> IF id = ci.it THEN [ci.h[id] EXCEPT !.m = um.m] ELSE ci.h[id]]

\* File.item(n) from  f.err = json.Unmarshal(buf, &it.m)  on: rb is what
\* f.bytes(n) gave, ci what f.cache.item(&l) did, um the decoding
itemReturn(rb, ci, um) ==
    [fs |-> [rb.fs EXCEPT !.err = um.err, !.items = KeptItems(rb.fs.items, ci, um)],
     nil |-> FALSE, m |-> um.m, decoded |-> TRUE,
     evicted |-> ci.evicted, panic |-> ci.panic]

itemDecode(rb, ci) ==
    itemReturn(rb, ci, IF ci.panic THEN [m |-> EmptyMap, err |-> rb.fs.err]
                       ELSE UnmarshalInto(rb.b, ci.h[ci.it].m))

\* File.item(n) from  it := f.cache.item(&l)  on.  l is a copy of the
\* descriptor and cache.item has a value receiver: what cache.item stores in
\* its receiver and in forLine.cached stays in the copies, the File keeps its
\* own cache value and descriptor.
itemMiss(n, rb) == itemDecode(rb, cacheItem(rb.fs.cache, rb.fs.items, n))

\* File.item(n): [fs, nil, m, decoded, evicted, panic]; decoded tells whether
\* the line was read and decoded, evicted the line whose item was taken over
\* (-1 for none)
item(src, fs, n) ==
    IF n < 0 \/ n >= Len(fs.index)
    THEN [fs |-> fs, nil |-> TRUE, m |-> EmptyMap, decoded |-> FALSE,
          evicted |-> -1, panic |-> FALSE]
    ELSE IF fs.index[n + 1].cached # Nil
    THEN [fs |-> fs, nil |-> FALSE, m |-> fs.items[fs.index[n + 1].cached].m,
          decoded |-> FALSE, evicted |-> -1, panic |-> FALSE]
    ELSE itemMiss(n, bytes(src, fs, n))

\* File.addKnownTag
addKnownTag(kts, tag) ==
    IF \E i \in DOMAIN kts : kts[i] = tag THEN kts ELSE Append(kts, tag)

RECURSIVE AddTagsInOrder(_, _, _)
AddTagsInOrder(kts, order, i) ==
    IF i > Len(order) THEN kts
    ELSE AddTagsInOrder(addKnownTag(kts, order[i]), order, i + 1)

\* the orders in which a range over a map with key set S may run
Perms(S) ==
    {p \in [1..Cardinality(S) -> S] : \A i, j \in DOMAIN p : p[i] = p[j] => i = j}

\* File.fillKnownTags(n), the map ranged over in the given order
fillKnownTags(src, fs, n, order) ==
    [item(src, fs, n).fs EXCEPT !.knownTags = AddTagsInOrder(@, order, 1)]

\* the Files NewFile's loop over fillKnownTags may leave, from line i on
RECURSIVE FillFrom(_, _, _)
FillFrom(src, S, i) ==
    IF S = {} THEN S
    ELSE LET n == FileLinesCount(CHOOSE fs \in S : TRUE)
         IN  IF ~(i < knownTagsDepth /\ i < n) THEN S
             ELSE FillFrom(src,
                           {fillKnownTags(src, fs, i, order) :
                              fs \in S, order \in Perms(DOMAIN item(src, CHOOSE f \in S : TRUE, i).m)},
                           i + 1)

S_level == <<"l", "e", "v", "e", "l">>
S_time == <<"t", "i", "m", "e">>
S_msg == <<"m", "s", "g">>

\* File.tagNames, indexed by Tag: TagLevel, TagTime, TagMessage
tagNames == <<S_level, S_time, S_msg>>
TagLevel == 0
TagTime == 1
TagMessage == 2
TagOther == 3

\* File.TagName
TagName(tag) == tagNames[tag + 1]

\* File.decodeTag
RECURSIVE decodeTagFrom(_, _)
decodeTagFrom(tag, t) ==
    IF t < TagOther /\ tag # tagNames[t + 1] THEN decodeTagFrom(tag, t + 1) ELSE t

decodeTag(tag) == decodeTagFrom(tag, TagLevel)

\* the slot taken to be the number of the Tag
sortSlotByTag(tag, pos) == IF tag = TagOther THEN pos ELSE tag

\* the switch of File.sortKnownTags: the slot of tags a known tag is put in
sortSlot(tag, pos) ==
    IF tag = TagTime THEN 0
    ELSE IF tag = TagLevel THEN 1
    ELSE IF tag = TagMessage THEN 2
    ELSE pos

\* File.sortKnownTags: [panic, tags]; tags is 0-based in the source, slot k
\* of the source is tags[k + 1] here, an unwritten slot is the empty string
RECURSIVE sortKnownTagsFrom(_, _, _, _)
sortKnownTagsFrom(kts, i, tags, pos) ==
    IF i > Len(kts) THEN [panic |-> FALSE, tags |-> tags]
    ELSE LET t == kts[i]
             tag == decodeTag(t)
             slot == sortSlot(tag, pos)
         IN  IF slot >= Len(tags) THEN [panic |-> TRUE, tags |-> tags]
             ELSE sortKnownTagsFrom(kts, i + 1, [tags EXCEPT ![slot + 1] = t],
                                    IF tag = TagOther THEN pos + 1 ELSE pos)

sortKnownTags(kts) ==
    sortKnownTagsFrom(kts, 1, [i \in 1..Len(kts) |-> <<>>], 3)

\* NewFile after its read loop, on the File fs: the outcomes [panic, fs]
\* (a panic in sortKnownTags leaves the File as filled)
NewFileTail(src, fs) ==
    {LET s == sortKnownTags(f.knownTags)
     IN  [panic |-> s.panic,
          fs |-> IF s.panic THEN f ELSE [f EXCEPT !.knownTags = s.tags]] :
       f \in FillFrom(src, {fs}, 0)}

\* NewFile on a source that one Read returns whole (shorter than bufSize)
NewFile(src) ==
    NewFileTail(src, [EmptyFS EXCEPT !.index =
        ScanChunk(src, [index |-> <<>>, pos |-> 0, length |-> 0], 1, Len(src)).index])

----------------------------------------------------------------------------
(* FileView *)

\* File.View(): the root view has no parent and a nil index
RootView == [parent |-> Nil, nilIndex |-> TRUE, index |-> <<>>, pos |-> 0, name |-> <<>>]

\* FileView.len
len(vs, fs, v) ==
    IF ~vs[v].nilIndex THEN Len(vs[v].index) ELSE Len(fs.index)

\* FileView.LinesCount
RECURSIVE LinesCount(_, _, _)
LinesCount(vs, fs, v) ==
    IF ~vs[v].nilIndex THEN Len(vs[v].index)
    ELSE IF vs[v].parent # Nil THEN LinesCount(vs, fs, vs[v].parent)
    ELSE FileLinesCount(fs)

\* Err looking at the view's own err field only, which nothing assigns
ErrOfViewOnly(vs, fs, v) == "nil"

\* FileView.Err: the view's own err is never assigned, so the chain of parents
\* is followed to File.Err
RECURSIVE Err(_, _, _)
Err(vs, fs, v) ==
    IF vs[v].parent # Nil THEN Err(vs, fs, vs[v].parent) ELSE fs.err

\* FileView.getIndex(i) reads f.index[i] outside the slice: a run-time panic
getIndexPanics(vs, v, i) ==
    ~vs[v].nilIndex /\ (i < 0 \/ i >= Len(vs[v].index))

\* getIndex giving the position in the view instead of the File position
getIndexInView(vs, v, i) == i

\* FileView.getIndex
getIndex(vs, v, i) ==
    IF ~vs[v].nilIndex THEN vs[v].index[i + 1] ELSE i

\* FileView.item
viewItem(src, vs, fs, v, idx) ==
    IF ~vs[v].nilIndex
    THEN IF idx < 0 \/ idx > Len(vs[v].index) - 1
         THEN [fs |-> fs, nil |-> TRUE, m |-> EmptyMap, decoded |-> FALSE,
               evicted |-> -1, panic |-> FALSE]
         ELSE item(src, fs, vs[v].index[idx + 1])
    ELSE item(src, fs, idx)

\* the level names, by rank: LevelTrace .. LevelFault
levels == << <<"t", "r", "a", "c", "e">>, <<"d", "e", "b", "u", "g">>,
             <<"i", "n", "f", "o">>, <<"w", "a", "r", "n">>,
             <<"e", "r", "r", "o", "r">>, <<"f", "a", "u", "l", "t">> >>

\* File.decodeLevel
RECURSIVE decodeLevelFrom(_, _)
decodeLevelFrom(lev, l) ==
    IF l >= Len(levels) THEN -1
    ELSE IF levels[l + 1] = lev THEN l
    ELSE decodeLevelFrom(lev, l + 1)

\* decodeLevel comparing the name as it is written
decodeLevelExact(lev) == decodeLevelFrom(lev, 0)

decodeLevel(lev) == decodeLevelFrom(ToLower(lev), 0)

\* tagToString of a JSON string value (the values of the model are strings)
tagToString(t) == t

\* regexp.MatchString(pattern, val) for a pattern of literal bytes with an
\* optional leading ^ and trailing $; a ( has no closing ) and does not
\* compile; a ^ or $ elsewhere compiles and matches nothing
MatchString(pattern, val) ==
    LET n == Len(pattern)
        s == IF n > 0 /\ pattern[1] = "^" THEN 1 ELSE 0
        e == IF n > s /\ pattern[n] = "$" THEN 1 ELSE 0
        core == Slice(pattern, 1 + s, n - e)
    IN  IF \E i \in DOMAIN pattern : pattern[i] = "("
        THEN [match |-> FALSE, err |-> "regexp"]
        ELSE IF \E i \in DOMAIN core : core[i] \in {"^", "$"}
        THEN [match |-> FALSE, err |-> "nil"]
        ELSE [match |-> IF s = 1 /\ e = 1 THEN val = core
                        ELSE IF s = 1 THEN HasAt(val, core, 1)
                        ELSE IF e = 1 THEN Len(core) <= Len(val)
                                           /\ HasAt(val, core, Len(val) - Len(core) + 1)
                        ELSE Contains(val, core),
              err |-> "nil"]

\* the switch of File.fit on the value val of the filter's tag: [match, fs]
fitValue(fs, val, q) ==
    LET islevel == q.tag = TagName(TagLevel)
        lev == IF islevel THEN decodeLevel(val) ELSE -1
        reqLev == IF islevel THEN decodeLevel(q.mask) ELSE -1
        re == MatchString(q.mask, val)
    IN  CASE q.op = "eq" ->
               [match |-> IF islevel THEN lev = reqLev ELSE val = q.mask, fs |-> fs]
          [] q.op = "ne" ->
               [match |-> IF islevel THEN lev # reqLev ELSE val # q.mask, fs |-> fs]
          [] q.op = "ge" ->
               [match |-> IF islevel THEN lev >= reqLev ELSE StrLessEq(q.mask, val),
                fs |-> fs]
          [] q.op = "le" ->
               [match |-> IF islevel THEN lev <= reqLev ELSE StrLessEq(val, q.mask),
                fs |-> fs]
          [] q.op = "regexp" ->
               [match |-> re.match,
                fs |-> IF re.err # "nil" THEN [fs EXCEPT !.err = re.err] ELSE fs]
          [] OTHER -> [match |-> FALSE, fs |-> fs]

\* fit taking a missing tag for the empty string
fitMissingAsEmpty(fs, m, q) ==
    IF q.tag # <<>>
    THEN fitValue(fs, IF q.tag \in DOMAIN m THEN tagToString(m[q.tag]) ELSE <<>>, q)
    ELSE [match |-> FALSE, fs |-> fs]

\* File.fit(it, q) on the record m of the item: [match, fs]
fit(fs, m, q) ==
    IF q.tag # <<>> /\ q.tag \in DOMAIN m
    THEN fitValue(fs, tagToString(m[q.tag]), q)
    ELSE [match |-> FALSE, fs |-> fs]

\* the FilterOperator values as Go strings
OpText(op) ==
    CASE op = "eq" -> <<"e", "q">>
      [] op = "ne" -> <<"n", "e">>
      [] op = "ge" -> <<"g", "e">>
      [] op = "le" -> <<"l", "e">>
      [] OTHER -> <<"r", "e", "g", "e", "x", "p">>

\* Filter.String
FilterString(q) == q.tag \o <<" ">> \o OpText(q.op) \o <<" ">> \o q.mask

\* one pass of the loop of FileView.Filter, for line i of the view, r being
\* what f.item(i) gave: [fs, match, panic]
FitOf(x) == [fs |-> x.fs, match |-> x.match, panic |-> FALSE]

FilterItem(q, r) ==
    IF r.nil \/ r.panic THEN [fs |-> r.fs, match |-> FALSE, panic |-> r.panic]
    ELSE FitOf(fit(r.fs, r.m, q))

FilterPass(src, vs, fs, v, q, i) == FilterItem(q, viewItem(src, vs, fs, v, i))

\* the loop of FileView.Filter from line i on: [fs, index, panic];
\* FilterRest continues it after the pass s for line i
RECURSIVE FilterLoop(_, _, _, _, _, _, _), FilterRest(_, _, _, _, _, _, _)
FilterLoop(src, vs, v, q, i, fs, out) ==
    IF ~(i < LinesCount(vs, fs, v)) THEN [fs |-> fs, index |-> out, panic |-> FALSE]
    ELSE FilterRest(src, vs, v, q, i, out, FilterPass(src, vs, fs, v, q, i))

FilterRest(src, vs, v, q, i, out, s) ==
    IF s.panic THEN [fs |-> s.fs, index |-> out, panic |-> TRUE]
    ELSE FilterLoop(src, vs, v, q, i + 1, s.fs,
                    IF s.match THEN Append(out, getIndex(vs, v, i)) ELSE out)

\* FileView.Filter: [fs, view, panic]
FilterReturn(v, q, r) ==
    [fs |-> r.fs, panic |-> r.panic,
     view |-> [parent |-> v, nilIndex |-> FALSE, index |-> r.index, pos |-> 0,
               name |-> FilterString(q)]]

Filter(src, vs, fs, v, q) == FilterReturn(v, q, FilterLoop(src, vs, v, q, 0, fs, <<>>))

\* FileView.rewindTo(idx) on view v: the views after it
RECURSIVE rewindScan(_, _, _)
rewindScan(vw, idx, i) ==
    IF i >= Len(vw.index) THEN vw.pos
    ELSE IF vw.index[i + 1] >= idx THEN i
    ELSE rewindScan(vw, idx, i + 1)

rewindTo(vs, v, idx) ==
    IF ~vs[v].nilIndex THEN [vs EXCEPT ![v].pos = rewindScan(vs[v], idx, 0)]
    ELSE [vs EXCEPT ![v].pos = idx]

\* FileView.Up: [vs, res]
Up(vs, v) ==
    IF vs[v].parent = Nil THEN [vs |-> vs, res |-> v]
    ELSE [vs |-> rewindTo(vs, vs[v].parent, vs[v].pos), res |-> vs[v].parent]

RECURSIVE topMost(_, _)
topMost(vs, p) == IF vs[p].parent # Nil THEN topMost(vs, vs[p].parent) ELSE p

\* FileView.Top: [vs, res]
Top(vs, v) ==
    IF vs[v].parent = Nil THEN [vs |-> vs, res |-> v]
    ELSE LET p == topMost(vs, vs[v].parent)
         IN  [vs |-> rewindTo(vs, p, vs[v].pos), res |-> p]

NoRet == [op |-> "none"]
NoSearch == [phase |-> "idle"]

----------------------------------------------------------------------------
(* NewFile, read by read *)

SeqsUpTo(S, n) == UNION {[1..k -> S] : k \in 0..n}

\* the byte sources NewFile is followed on
ByteSources == SeqsUpTo({"a", "b", NL}, MaxSrcLen)

\* no terminal is started on the file
NoTerminal ==
    /\ term = [f |-> Nil]
    /\ inChan = <<>>
    /\ io = [main |-> "none"]

InitIndex ==
    /\ source \in ByteSources
    /\ pc = "reading"
    /\ off = 0
    /\ scan = [pos |-> 0, length |-> 0]
    /\ index = EmptyFS.index
    /\ cache = EmptyFS.cache
    /\ items = EmptyFS.items
    /\ err = EmptyFS.err
    /\ knownTags = EmptyFS.knownTags
    /\ views = <<>>
    /\ ret = NoRet
    /\ srch = NoSearch
    /\ acc = <<>>
    /\ NoTerminal

\* f.Read(buffer) returns l > 0 bytes: the loop body of NewFile
ReadChunk ==
    /\ pc = "reading"
    /\ off < Len(source)
    /\ \E l \in 1..Min(bufSize, Len(source) - off) :
         LET st == ScanChunk(source,
                             [index |-> index, pos |-> scan.pos, length |-> scan.length],
                             off + 1, off + l)
         IN  /\ index' = st.index
             /\ scan' = [pos |-> st.pos, length |-> st.length]
             /\ off' = off + l
    /\ UNCHANGED <<source, pc, cache, items, err, knownTags, views, ret, srch, acc, term, inChan, io>>

\* f.Read(buffer) returns 0, io.EOF: the loop ends, the known tags are
\* filled and sorted, and main takes the root view of the File
ReadEOF ==
    /\ pc = "reading"
    /\ off = Len(source)
    /\ \E o \in NewFileTail(source, FS) :
         /\ SetFS(o.fs)
         /\ pc' = IF o.panic THEN "panic" ELSE "ready"
         /\ views' = IF o.panic THEN <<>> ELSE <<RootView>>
    /\ UNCHANGED <<source, off, scan, ret, srch, acc, term, inChan, io>>

\* f.Read(buffer) fails: NewFile returns the File as indexed so far
ReadFail ==
    /\ pc = "reading"
    /\ pc' = "failed"
    /\ UNCHANGED <<source, off, scan, index, cache, items, err, knownTags, views, ret,
                   srch, acc, term, inChan, io>>

\* File.bytes(n) on the opened File
RawBytes ==
    /\ pc = "ready"
    /\ \E n \in -1..Len(index) :
         LET r == bytes(source, FS, n)
         IN  /\ SetFS(r.fs)
             /\ ret' = [op |-> "bytes", n |-> n, ok |-> r.ok, b |-> r.b]
    /\ UNCHANGED <<source, pc, off, scan, views, srch, acc, term, inChan, io>>

NextIndex == ReadChunk \/ ReadEOF \/ ReadFail \/ RawBytes

SpecIndex == InitIndex /\ [][NextIndex]_vars

----------------------------------------------------------------------------
(* C1 *)

\* the lines of a byte source: the bytes between newlines, the bytes after
\* the last newline being a line too when there are any
NewlinesOf(src) == {i \in DOMAIN src : src[i] = NL}

\* the position of the k-th newline of src; 0 before the first, Len(src) + 1
\* after the last
NthNewline(src, k) ==
    IF k = 0 THEN 0
    ELSE IF k > Cardinality(NewlinesOf(src)) THEN Len(src) + 1
    ELSE CHOOSE i \in NewlinesOf(src) :
             Cardinality({j \in NewlinesOf(src) : j < i}) = k - 1

SplitLines(src) ==
    [k \in 1..(Cardinality(NewlinesOf(src))
                + IF NthNewline(src, Cardinality(NewlinesOf(src))) < Len(src) THEN 1 ELSE 0)
        |-> SubSeq(src, NthNewline(src, k - 1) + 1, NthNewline(src, k) - 1)]

SourceLines == SplitLines(source)

\* C1: after NewFile on a source of N lines, the last of which may end at the
\* end of the source instead of at a newline, LinesCount() = N and bytes(i) is
\* the i-th line without its newline, for every i < N.
C1_IndexMatchesLines ==
    pc = "ready" =>
        /\ FileLinesCount(FS) = Len(SourceLines)
        /\ \A i \in 0..(Len(SourceLines) - 1) :
             /\ bytes(source, FS, i).ok
             /\ bytes(source, FS, i).b = SourceLines[i + 1]

\* the same for the lines that end at a newline: what NewFile does index
NewlineCount == Cardinality(NewlinesOf(source))

C1_TerminatedLinesIndexed ==
    pc = "ready" =>
        /\ FileLinesCount(FS) = NewlineCount
        /\ \A i \in 0..(NewlineCount - 1) :
             /\ bytes(source, FS, i).ok
             /\ bytes(source, FS, i).b = SourceLines[i + 1]

----------------------------------------------------------------------------
(* Files of JSON records and the calls on their views *)

S_info == <<"i", "n", "f", "o">>
S_error == <<"e", "r", "r", "o", "r">>

\* {"time":"1","level":"info","msg":"a"} and its like
LnInfoA == Encode(<< <<S_time, <<"1">>>>, <<S_level, S_info>>, <<S_msg, <<"a">>>> >>)
LnErrorB == Encode(<< <<S_time, <<"2">>>>, <<S_level, S_error>>, <<S_msg, <<"b">>>> >>)
LnInfoC == Encode(<< <<S_time, <<"3">>>>, <<S_level, S_info>>, <<S_msg, <<"c">>>> >>)
\* a record without the level field
LnNoLevel == Encode(<< <<S_time, <<"2">>>>, <<S_msg, <<"b">>>> >>)

\* a source of the given lines, each ended by a newline
RECURSIVE JoinLines(_, _)
JoinLines(ls, i) ==
    IF i > Len(ls) THEN <<>> ELSE ls[i] \o <<NL>> \o JoinLines(ls, i + 1)

SourcesOf(kinds, n) == {JoinLines(ls, 1) : ls \in SeqsUpTo(kinds, n)}

ViewSources == SourcesOf({LnInfoA, LnErrorB, LnInfoC}, MaxLines)

ViewFilters ==
    { [tag |-> S_level, mask |-> S_info, op |-> "eq"],
      [tag |-> S_msg, mask |-> <<"b">>, op |-> "ge"] }

\* the state main reaches with src: NewFile, then File.View()
OpenedFile(src) ==
    /\ source = src
    /\ off = Len(src)
    /\ scan = [pos |-> 0, length |-> 0]
    /\ \E o \in NewFile(src) :
         /\ index = o.fs.index
         /\ cache = o.fs.cache
         /\ items = o.fs.items
         /\ err = o.fs.err
         /\ knownTags = o.fs.knownTags
         /\ pc = IF o.panic THEN "panic" ELSE "ready"
         /\ views = IF o.panic THEN <<>> ELSE <<RootView>>
    /\ ret = NoRet
    /\ srch = NoSearch
    /\ acc = <<>>

Opened(src) == OpenedFile(src) /\ NoTerminal

InitView == \E src \in ViewSources : Opened(src)

\* v.Filter(q) on the deepest view v, q one of qs, no other call running
CallFilter(qs) ==
    /\ pc = "ready"
    /\ srch.phase = "idle"
    /\ Len(views) < MaxViews
    /\ \E q \in qs : \E r \in {Filter(source, views, FS, Len(views), q)} :
         /\ SetFS(r.fs)
         /\ pc' = IF r.panic THEN "panic" ELSE pc
         /\ views' = IF r.panic THEN views ELSE Append(views, r.view)
         /\ ret' = [op |-> "Filter", v |-> Len(views), q |-> q, res |-> Len(views) + 1]
    /\ UNCHANGED <<source, off, scan, srch, acc, term, inChan, io>>

PositionsOf(v) == 0..(IF len(views, FS, v) > 0 THEN len(views, FS, v) - 1 ELSE 0)

\* v.SetPosition(p) on the view the caller holds (the deepest), p a line of it
CallSetPosition ==
    /\ pc = "ready"
    /\ \E v \in {Len(views)} : \E p \in PositionsOf(v) :
         /\ views' = [views EXCEPT ![v].pos = p]
         /\ ret' = NoRet
    /\ UNCHANGED <<source, pc, off, scan, index, cache, items, err, knownTags, srch, acc, term, inChan, io>>

\* v.Move(lines) by one line on the view the caller holds, the caller keeping
\* the cursor inside the view
CallMove ==
    /\ pc = "ready"
    /\ \E v \in {Len(views)} : \E lines \in {-1, 1} :
         /\ views[v].pos + lines \in PositionsOf(v)
         /\ views' = [views EXCEPT ![v].pos = @ + lines]
         /\ ret' = NoRet
    /\ UNCHANGED <<source, pc, off, scan, index, cache, items, err, knownTags, srch, acc, term, inChan, io>>

\* v.Up()
CallUp ==
    /\ pc = "ready"
    /\ \E v \in DOMAIN views :
         LET r == Up(views, v)
         IN  /\ views' = r.vs
             /\ ret' = [op |-> "Up", v |-> v, res |-> r.res]
    /\ UNCHANGED <<source, pc, off, scan, index, cache, items, err, knownTags, srch, acc, term, inChan, io>>

\* v.Top()
CallTop ==
    /\ pc = "ready"
    /\ \E v \in DOMAIN views :
         LET r == Top(views, v)
         IN  /\ views' = r.vs
             /\ ret' = [op |-> "Top", v |-> v, res |-> r.res]
    /\ UNCHANGED <<source, pc, off, scan, index, cache, items, err, knownTags, srch, acc, term, inChan, io>>

\* the holder of the deepest view lets go of it (as after t.f = t.f.Up())
DropView ==
    /\ pc = "ready"
    /\ Len(views) > 1
    /\ views' = SubSeq(views, 1, Len(views) - 1)
    /\ ret' = NoRet
    /\ UNCHANGED <<source, pc, off, scan, index, cache, items, err, knownTags, srch, acc, term, inChan, io>>

FilterView == CallFilter(ViewFilters)

NextView == FilterView \/ CallSetPosition \/ CallMove \/ CallUp \/ CallTop \/ DropView

SpecView == InitView /\ [][NextView]_vars
-----------------------------------------------------------------------------
(* the view chain: Filter, Up and Top *)

\* the absolute File positions of the lines visible in view v, in v's order
VisibleAbs(v) ==
    IF views[v].nilIndex THEN [i \in 1..Len(index) |-> i - 1] ELSE views[v].index

\* the record of the absolute line n of the source
RecordOf(n) == Unmarshal(SourceLines[n + 1]).m

Satisfies(n, q) == fit(FS, RecordOf(n), q).match

RECURSIVE Matching(_, _, _)
Matching(abs, q, i) ==
    IF i > Len(abs) THEN <<>>
    ELSE (IF Satisfies(abs[i], q) THEN <<abs[i]>> ELSE <<>>) \o Matching(abs, q, i + 1)

StrictlyIncreasing(s) == \A i, j \in DOMAIN s : i < j => s[i] < s[j]

LevelEqInfo == [tag |-> S_level, mask |-> S_info, op |-> "eq"]

\* C2: v.Filter(f) on any view v of the chain returns a new derived view whose
\* parent is v and whose index is exactly the absolute File positions of the
\* lines visible in v that satisfy f, in v's order and strictly increasing; v
\* and the views above it keep their index and cursor; for the lines info,
\* error, info the filter level eq info on the root yields [0,2]
C2_FilterAbsolutePositions ==
    [][(ret'.op = "Filter" /\ pc' = "ready") =>
          /\ ret'.res = Len(views) + 1
          /\ Len(views') = Len(views) + 1
          /\ views'[ret'.res].parent = ret'.v
          /\ ~views'[ret'.res].nilIndex
          /\ views'[ret'.res].index = Matching(VisibleAbs(ret'.v), ret'.q, 1)
          /\ StrictlyIncreasing(views'[ret'.res].index)
          /\ \A i \in DOMAIN views : views'[i] = views[i]
          /\ (/\ source = JoinLines(<<LnInfoA, LnErrorB, LnInfoC>>, 1)
              /\ ret'.v = 1
              /\ ret'.q = LevelEqInfo) => views'[ret'.res].index = <<0, 2>>]_vars

\* a filter on the derived view [0,2] of info, error, info has kept its second
\* line, the absolute line 2
C2_Witness ==
    /\ pc = "ready"
    /\ ret.op = "Filter"
    /\ ret.v = 2
    /\ source = JoinLines(<<LnInfoA, LnErrorB, LnInfoC>>, 1)
    /\ views[2].name = FilterString(LevelEqInfo)
    /\ views[2].index = <<0, 2>>
    /\ views[3].index = <<2>>

\* the position of the first entry of view p that is >= abs
RECURSIVE FirstAtLeast(_, _, _)
FirstAtLeast(p, abs, i) ==
    IF i >= Len(views[p].index) THEN -1
    ELSE IF views[p].index[i + 1] >= abs THEN i
    ELSE FirstAtLeast(p, abs, i + 1)

\* the absolute File line under the cursor of the derived view v
CursorLine(v) == views[v].index[views[v].pos + 1]

CursorOnLine(v) ==
    /\ ~views[v].nilIndex
    /\ views[v].pos \in 0..(Len(views[v].index) - 1)

\* C5: Up() on a derived view whose cursor is at view position p returns its
\* parent with the parent's cursor on the absolute File line child.index[p]:
\* that line itself for a root parent, the position of the parent's first
\* entry >= that line for a derived parent; Up() on the root returns the root
\* with its cursor unchanged
C5_UpKeepsAbsoluteLine ==
    [][ret'.op = "Up" =>
          IF views[ret'.v].parent = Nil
          THEN ret'.res = ret'.v /\ views' = views
          ELSE /\ ret'.res = views[ret'.v].parent
               /\ CursorOnLine(ret'.v) =>
                    views'[ret'.res].pos =
                        IF views[ret'.res].nilIndex THEN CursorLine(ret'.v)
                        ELSE FirstAtLeast(ret'.res, CursorLine(ret'.v), 0)]_vars

\* the view reached from v by repeated Up() until the parent is nil
RECURSIVE RootOf(_)
RootOf(v) == IF views[v].parent = Nil THEN v ELSE RootOf(views[v].parent)

\* C6: Top() on the deepest view of a chain of filters returns the root view
\* that repeated Up() reaches, and the root's cursor then is the absolute File
\* line of the deepest view's cursor
C6_TopKeepsAbsoluteLine ==
    [][ret'.op = "Top" =>
          /\ ret'.res = RootOf(ret'.v)
          /\ views[ret'.res].parent = Nil
          /\ (views[ret'.v].parent # Nil /\ CursorOnLine(ret'.v)) =>
                views'[ret'.res].pos = CursorLine(ret'.v)]_vars

\* the part of C6 the code keeps: Top() returns the view repeated Up() reaches
C6_TopReturnsRoot ==
    [][ret'.op = "Top" => (ret'.res = RootOf(ret'.v) /\ views[ret'.res].parent = Nil)]_vars
-----------------------------------------------------------------------------
(* FileView.Search and FileView.SearchTag, one step per pass of their loop *)

SearchForward == 0
SearchBack == 1

\* checkIdx, the closure of Search and SearchTag, on a view of n lines
checkIdx(n, from) ==
    IF from >= n THEN 0
    ELSE IF from < 0 THEN n - 1
    ELSE from

\* the step of the loop: from++ or from--
SearchAdvanceForward(from, direction) == from + 1

SearchAdvance(from, direction) ==
    IF direction = SearchForward THEN from + 1 ELSE from - 1

SearchFilters ==
    { [tag |-> S_level, mask |-> S_info, op |-> "eq"],
      [tag |-> S_msg, mask |-> <<"b">>, op |-> "ge"] }

SearchMasks == { <<"c">>, S_info, <<"z">> }

InitSearch == InitView

SearchFilter == CallFilter(SearchFilters)

\* the call of Search or SearchTag on the deepest view up to the loop:
\* checkIdx() and start := from
SearchEnter(kind, tag) ==
    /\ pc = "ready"
    /\ srch.phase = "idle"
    /\ \E mask \in SearchMasks, direction \in {SearchForward, SearchBack},
          from \in -1..len(views, FS, Len(views)) :
         srch' = [phase |-> "run", kind |-> kind, v |-> Len(views), tag |-> tag,
                  mask |-> mask, direction |-> direction, arg |-> from,
                  from |-> checkIdx(len(views, FS, Len(views)), from),
                  start |-> checkIdx(len(views, FS, Len(views)), from),
                  visits |-> [p \in 0..(len(views, FS, Len(views)) - 1) |-> 0],
                  res |-> -1, err |-> "nil"]
    /\ ret' = NoRet
    /\ UNCHANGED <<source, pc, off, scan, index, cache, items, err, knownTags, views, acc, term, inChan, io>>

CallSearch == SearchEnter("Search", <<>>)

CallSearchTag == SearchEnter("SearchTag", S_msg)

\* the rest of a pass whose line did not match: the step, the test against
\* start, checkIdx()
SearchContinue(s) ==
    IF s.start = SearchAdvance(s.from, s.direction)
    THEN [s EXCEPT !.phase = "done", !.from = SearchAdvance(s.from, s.direction),
                   !.res = -1, !.err = "nil"]
    ELSE [s EXCEPT !.from = checkIdx(len(views, FS, s.v),
                                     SearchAdvance(s.from, s.direction))]

Visited(s) ==
    IF s.from \in DOMAIN s.visits THEN [s EXCEPT !.visits[s.from] = @ + 1] ELSE s

\* what a pass makes of the search, found telling whether its line matched
SearchPass(s, nil, found) ==
    IF nil THEN [s EXCEPT !.phase = "done", !.res = -1, !.err = "file read error"]
    ELSE IF found THEN [s EXCEPT !.phase = "done", !.res = s.from, !.err = "nil"]
    ELSE SearchContinue(s)

SearchPanic ==
    /\ pc' = "panic"
    /\ srch' = [srch EXCEPT !.phase = "panic"]
    /\ UNCHANGED <<index, cache, items, err, knownTags>>

\* one pass of the loop of Search
SearchLoop ==
    /\ pc = "ready"
    /\ srch.phase = "run"
    /\ srch.kind = "Search"
    /\ srch.from \in DOMAIN srch.visits => srch.visits[srch.from] < MaxVisits
    /\ IF getIndexPanics(views, srch.v, srch.from)
       THEN SearchPanic
       ELSE \E r \in {bytes(source, FS, getIndex(views, srch.v, srch.from))} :
              /\ SetFS(r.fs)
              /\ pc' = pc
              /\ srch' = SearchPass(Visited(srch), ~r.ok, Contains(r.b, srch.mask))
    /\ ret' = NoRet
    /\ UNCHANGED <<source, off, scan, views, acc, term, inChan, io>>

TagFound(m, tag, mask) == tag \in DOMAIN m /\ Contains(tagToString(m[tag]), mask)

\* one pass of the loop of SearchTag
SearchTagLoop ==
    /\ pc = "ready"
    /\ srch.phase = "run"
    /\ srch.kind = "SearchTag"
    /\ srch.from \in DOMAIN srch.visits => srch.visits[srch.from] < MaxVisits
    /\ IF getIndexPanics(views, srch.v, srch.from)
       THEN SearchPanic
       ELSE \E r \in {item(source, FS, getIndex(views, srch.v, srch.from))} :
              /\ SetFS(r.fs)
              /\ pc' = IF r.panic THEN "panic" ELSE pc
              /\ srch' = IF r.panic THEN [srch EXCEPT !.phase = "panic"]
                         ELSE SearchPass(Visited(srch), r.nil,
                                         TagFound(r.m, srch.tag, srch.mask))
    /\ ret' = NoRet
    /\ UNCHANGED <<source, off, scan, views, acc, term, inChan, io>>

NextSearch == SearchFilter \/ CallSearch \/ CallSearchTag \/ SearchLoop \/ SearchTagLoop

SpecSearch == InitSearch /\ [][NextSearch]_vars

\* whether the line at position p of the searched view holds the mask: in its
\* bytes for Search, in the value of its tag for SearchTag
LineHasMask(s, p) ==
    IF s.kind = "Search"
    THEN Contains(SourceLines[VisibleAbs(s.v)[p + 1] + 1], s.mask)
    ELSE TagFound(RecordOf(VisibleAbs(s.v)[p + 1]), s.tag, s.mask)

SearchedLen(s) == Len(VisibleAbs(s.v))

MaskPresent(s) == \E p \in 0..(SearchedLen(s) - 1) : LineHasMask(s, p)

\* the k-th position of a circular scan of n lines from the given line
CircularAt(n, from, direction, k) ==
    IF direction = SearchForward THEN (from + n + k) % n ELSE (from + 2 * n - k) % n

ScanAt(s, k) == CircularAt(SearchedLen(s), s.arg, s.direction, k)

FirstCircularMatch(s) ==
    ScanAt(s, CHOOSE k \in 0..(SearchedLen(s) - 1) :
                 /\ LineHasMask(s, ScanAt(s, k))
                 /\ \A j \in 0..(k - 1) : ~LineHasMask(s, ScanAt(s, j)))

\* C3: when a visible line holds the mask, Search returns, for every from and
\* both directions, the view-relative index of the first line holding it that
\* a circular scan from `from` (inclusive) meets, wrapping at either end, and
\* meets no line twice on the way
C3_SearchFirstCircularMatch ==
    (srch.phase # "idle" /\ srch.kind = "Search" /\ MaskPresent(srch)) =>
        /\ srch.phase # "panic"
        /\ \A p \in DOMAIN srch.visits : srch.visits[p] <= 1
        /\ srch.phase = "done" =>
             (srch.res = FirstCircularMatch(srch) /\ srch.err = "nil")

\* in the view [0,2] of the lines a, b, c a forward search from 0 for "c",
\* which only the absolute line 2 holds, has returned 1
C3_Witness ==
    /\ source = JoinLines(<<LnInfoA, LnErrorB, LnInfoC>>, 1)
    /\ srch.phase = "done"
    /\ srch.kind = "Search"
    /\ srch.v = 2
    /\ views[2].index = <<0, 2>>
    /\ srch.mask = <<"c">>
    /\ srch.arg = 0
    /\ srch.direction = SearchForward
    /\ srch.res = 1

\* C4: on a non-empty view, Search and SearchTag for a mask no visible line
\* holds end, for every from and both directions, with -1 and a nil error
\* after examining every visible line exactly once
C4_AbsentMaskVisitsOnce ==
    (srch.phase \in {"run", "done"} /\ SearchedLen(srch) > 0 /\ ~MaskPresent(srch)) =>
        /\ \A p \in DOMAIN srch.visits : srch.visits[p] <= 1
        /\ srch.phase = "done" =>
             /\ srch.res = -1
             /\ srch.err = "nil"
             /\ \A p \in DOMAIN srch.visits : srch.visits[p] = 1
-----------------------------------------------------------------------------
(* File.fit through Filter on the root view: levels and missing tags *)

FitLines == 2

S_trace == <<"t", "r", "a", "c", "e">>
S_debug == <<"d", "e", "b", "u", "g">>
S_warn == <<"w", "a", "r", "n">>
S_fault == <<"f", "a", "u", "l", "t">>
S_INFO == <<"I", "N", "F", "O">>
S_Warn == <<"W", "a", "r", "n">>
S_xyz == <<"x", "y", "z">>

\* {"time":"1","level":<lev>,"msg":"a"}
LevelLine(lev) == Encode(<< <<S_time, <<"1">>>>, <<S_level, lev>>, <<S_msg, <<"a">>>> >>)

\* a record without the msg field
LnNoMsg == Encode(<< <<S_time, <<"1">>>>, <<S_level, S_info>> >>)

FitLevels == {S_trace, S_debug, S_info, S_warn, S_error, S_fault, S_INFO, S_Warn, S_xyz}

FitSources == SourcesOf({LevelLine(lev) : lev \in FitLevels} \cup {LnNoLevel, LnNoMsg},
                        FitLines)

RankOps == {"eq", "ne", "ge", "le"}

\* a pattern regexp.MatchString does not compile: ( without )
BadPattern == <<"(">>

FitFilters ==
    [tag : {S_level}, mask : {S_info, S_Warn, S_trace, S_fault, S_xyz}, op : RankOps]
    \cup [tag : {S_level}, mask : {<<>>, S_info}, op : {"regexp"}]
    \cup [tag : {S_msg}, mask : {<<>>, <<"a">>}, op : RankOps \cup {"regexp"}]
    \cup [tag : {S_level, S_msg}, mask : {BadPattern}, op : {"regexp"}]

InitFit == \E src \in FitSources : Opened(src)

\* the filters of this specification are put on the root view
FitFilter == Len(views) = 1 /\ CallFilter(FitFilters)

NextFit == FitFilter

SpecFit == InitFit /\ [][NextFit]_vars

\* the level names by rank, and the rank of a name: its case-insensitive
\* position among them, -1 for any other name
RankNames == <<S_trace, S_debug, S_info, S_warn, S_error, S_fault>>

EqFold(a, b) ==
    /\ Len(a) = Len(b)
    /\ \A i \in DOMAIN a : LowerChar(a[i]) = LowerChar(b[i])

Rank(name) ==
    IF \E r \in DOMAIN RankNames : EqFold(RankNames[r], name)
    THEN (CHOOSE r \in DOMAIN RankNames : EqFold(RankNames[r], name)) - 1
    ELSE -1

RankHolds(op, a, b) ==
    CASE op = "eq" -> a = b
      [] op = "ne" -> a # b
      [] op = "ge" -> a >= b
      [] op = "le" -> a <= b

\* the absolute lines of the result of the Filter call that ret tells of
Filtered == Range(views[ret.res].index)

AllLines == 0..(Len(index) - 1)

HasTag(n, tag) == tag \in DOMAIN RecordOf(n)

\* C7: with the level field as the filter's tag, a line that has the field
\* matches eq / ne / ge / le iff rank(value) =, #, >=, <= rank(mask), rank
\* being the case-insensitive position in trace < debug < info < warn < error
\* < fault and -1 for any other name; level ge info returns exactly the lines
\* of level info, warn, error or fault
C7_LevelRankComparison ==
    (pc = "ready" /\ ret.op = "Filter" /\ ret.q.tag = S_level /\ ret.q.op \in RankOps) =>
        /\ \A n \in AllLines :
             HasTag(n, S_level) =>
                (n \in Filtered <=>
                    RankHolds(ret.q.op, Rank(RecordOf(n)[S_level]), Rank(ret.q.mask)))
        /\ (ret.q.op = "ge" /\ ret.q.mask = S_info) =>
             Filtered = {n \in AllLines :
                            /\ HasTag(n, S_level)
                            /\ \E name \in {S_info, S_warn, S_error, S_fault} :
                                 EqFold(name, RecordOf(n)[S_level])}

\* level ge info on a file of a line INFO and a line debug has kept the first
\* only
C7_Witness ==
    /\ pc = "ready"
    /\ ret.op = "Filter"
    /\ ret.q = [tag |-> S_level, mask |-> S_info, op |-> "ge"]
    /\ source = JoinLines(<<LevelLine(S_INFO), LevelLine(S_debug)>>, 1)
    /\ views[ret.res].index = <<0>>

\* C8: for every operator and every mask, a line whose record does not hold
\* the filter's tag is never in the result of Filter
C8_MissingTagNeverMatches ==
    (pc = "ready" /\ ret.op = "Filter") =>
        \A n \in Filtered : HasTag(n, ret.q.tag)

\* a ne filter has kept one line of a file and left out the other, which lacks
\* the tag
C8_Witness ==
    /\ pc = "ready"
    /\ ret.op = "Filter"
    /\ ret.q.op = "ne"
    /\ Len(index) = 2
    /\ Len(views[ret.res].index) = 1
    /\ \E n \in AllLines : ~HasTag(n, ret.q.tag)
-----------------------------------------------------------------------------
(* File.item and the record cache *)

CacheSource ==
    JoinLines([i \in 1..CacheLines |->
                  IF i % 3 = 1 THEN LnInfoA ELSE IF i % 3 = 2 THEN LnErrorB ELSE LnInfoC], 1)

InitCache == Opened(CacheSource)

\* f.item(n) for a line n of the file
CallItem ==
    /\ pc = "ready"
    /\ Len(acc) < MaxAccesses
    /\ \E n \in 0..(Len(index) - 1) : \E r \in {item(source, FS, n)} :
         /\ SetFS(r.fs)
         /\ pc' = IF r.panic THEN "panic" ELSE pc
         /\ acc' = Append(acc, n)
         /\ ret' = [op |-> "item", n |-> n, nil |-> r.nil, m |-> r.m,
                    decoded |-> r.decoded, evicted |-> r.evicted]
    /\ UNCHANGED <<source, off, scan, views, srch, term, inChan, io>>

NextCache == CallItem

SpecCache == InitCache /\ [][NextCache]_vars

\* the accesses before the last one
Earlier == SubSeq(acc, 1, Len(acc) - 1)

\* the place of the last access to line n in the history h, 0 when there is none
LastAccess(h, n) ==
    IF \E i \in DOMAIN h : h[i] = n
    THEN CHOOSE i \in DOMAIN h : h[i] = n /\ \A j \in DOMAIN h : j > i => h[j] # n
    ELSE 0

\* the distinct lines accessed in h after the last access to n
OthersSince(h, n) == {h[j] : j \in (LastAccess(h, n) + 1)..Len(h)}

\* the lines an LRU cache of cacheSize entries holds after the history h
HeldAfter(h) ==
    {n \in Range(h) : Cardinality(OthersSince(h, n)) < cacheSize}

LeastRecent(h) ==
    CHOOSE n \in HeldAfter(h) : \A k \in HeldAfter(h) : LastAccess(h, n) <= LastAccess(h, k)

LiveDescriptors == {n \in 0..(Len(index) - 1) : index[n + 1].cached # Nil}

\* C9: after any sequence of record accesses at most cacheSize lines hold a
\* live cache entry; a record inserted at capacity evicts the entry of the
\* least-recently-accessed line, whose descriptor then refers to no cache
\* entry; a later access to an evicted line decodes it again without error
C9_CacheBoundedLRUEviction ==
    (pc = "ready" /\ ret.op = "item") =>
        /\ Cardinality(LiveDescriptors) <= cacheSize
        /\ (ret.n \notin HeldAfter(Earlier) /\ Cardinality(HeldAfter(Earlier)) = cacheSize) =>
             /\ ret.evicted = LeastRecent(Earlier)
             /\ index[LeastRecent(Earlier) + 1].cached = Nil
        /\ (ret.n \in Range(Earlier) /\ ret.n \notin HeldAfter(Earlier)) =>
             (ret.decoded /\ ~ret.nil /\ err = "nil" /\ ret.m = RecordOf(ret.n))

\* the parts of C9 that hold of the code
C9_CacheBounded ==
    (pc = "ready" /\ ret.op = "item") =>
        /\ Cardinality(LiveDescriptors) <= cacheSize
        /\ (ret.decoded /\ ~ret.nil /\ err = "nil" /\ ret.m = RecordOf(ret.n))

\* C10: when line n has been accessed and fewer than cacheSize other distinct
\* lines have been accessed since, the next access to n returns the cached
\* record through the descriptor's back-reference, without reading or
\* decoding the line again
C10_RepeatedAccessIsCached ==
    (pc = "ready" /\ ret.op = "item" /\ ret.n \in HeldAfter(Earlier)) =>
        /\ ~ret.decoded
        /\ ~ret.nil
        /\ ret.m = RecordOf(ret.n)
-----------------------------------------------------------------------------
(* NewFile after its read loop, one step per fillKnownTags call *)

TagLines == 2

S_host == <<"h", "o", "s", "t">>
S_pid == <<"p", "i", "d">>

TagRecords ==
    { Encode(<< <<S_time, <<"1">>>>, <<S_level, S_info>>, <<S_msg, <<"a">>>>, <<S_host, <<"b">>>> >>),
      Encode(<< <<S_host, <<"b">>>>, <<S_msg, <<"a">>>>, <<S_level, S_info>>, <<S_time, <<"1">>>> >>),
      Encode(<< <<S_level, S_info>>, <<S_pid, <<"2">>>>, <<S_time, <<"1">>>>, <<S_msg, <<"a">>>> >>),
      Encode(<< <<S_pid, <<"2">>>>, <<S_msg, <<"a">>>>, <<S_host, <<"b">>>>, <<S_time, <<"1">>>> >>),
      Encode(<< <<S_host, <<"b">>>> >>),
      LnNoLevel }

TagSources == SourcesOf(TagRecords, TagLines)

\* NewFile up to its loop over fillKnownTags, the source read in one chunk
InitTags ==
    /\ source \in TagSources
    /\ off = Len(source)
    /\ index = ScanChunk(source, [index |-> <<>>, pos |-> 0, length |-> 0], 1,
                         Len(source)).index
    /\ scan = [pos |-> Len(source), length |-> 0, i |-> 0]
    /\ cache = EmptyFS.cache
    /\ items = EmptyFS.items
    /\ err = EmptyFS.err
    /\ knownTags = EmptyFS.knownTags
    /\ pc = "fill"
    /\ views = <<>>
    /\ ret = NoRet
    /\ srch = NoSearch
    /\ acc = <<>>
    /\ NoTerminal

\* one pass of  for i := 0; i < knownTagsDepth && i < len(fl.index); i++
FillKnownTags ==
    /\ pc = "fill"
    /\ scan.i < knownTagsDepth /\ scan.i < Len(index)
    /\ \E order \in Perms(DOMAIN item(source, FS, scan.i).m) :
         SetFS(fillKnownTags(source, FS, scan.i, order))
    /\ scan' = [scan EXCEPT !.i = @ + 1]
    /\ UNCHANGED <<source, pc, off, views, ret, srch, acc, term, inChan, io>>

\* fl.sortKnownTags() and the return of NewFile
SortKnownTags ==
    /\ pc = "fill"
    /\ ~(scan.i < knownTagsDepth /\ scan.i < Len(index))
    /\ \E s \in {sortKnownTags(knownTags)} :
         /\ pc' = IF s.panic THEN "panic" ELSE "ready"
         /\ knownTags' = IF s.panic THEN knownTags ELSE s.tags
         /\ views' = IF s.panic THEN views ELSE <<RootView>>
    /\ UNCHANGED <<source, off, scan, index, cache, items, err, ret, srch, acc, term, inChan, io>>

NextTags == FillKnownTags \/ SortKnownTags

SpecTags == InitTags /\ [][NextTags]_vars

\* the field names of the records of the file, and the record a name is first
\* met in
Observed == UNION {DOMAIN RecordOf(n) : n \in 0..(Len(index) - 1)}

FirstRecord(tag) == CHOOSE n \in 0..(Len(index) - 1) :
                        /\ tag \in DOMAIN RecordOf(n)
                        /\ \A k \in 0..(n - 1) : tag \notin DOMAIN RecordOf(k)

RoleTags == <<S_time, S_level, S_msg>>

PlaceOf(tag) == CHOOSE i \in DOMAIN knownTags : knownTags[i] = tag

\* C11: after NewFile on a file whose records hold the time, level and
\* message fields and other fields, the known tags are time, level, message
\* followed by every other field name met, each once, in the order of the
\* records they are first met in, whatever the order of the keys in a record;
\* a record of time, level, msg, host gives time, level, msg, host
C11_KnownTagsOrder ==
    (pc \in {"ready", "panic"} /\ Range(RoleTags) \subseteq Observed) =>
        /\ pc = "ready"
        /\ SubSeq(knownTags, 1, 3) = RoleTags
        /\ Range(knownTags) = Observed
        /\ Len(knownTags) = Cardinality(Observed)
        /\ \A a, b \in Observed \ Range(RoleTags) :
             FirstRecord(a) < FirstRecord(b) => PlaceOf(a) < PlaceOf(b)
        /\ (Len(index) = 1 /\ Observed = Range(RoleTags) \cup {S_host}) =>
             knownTags = <<S_time, S_level, S_msg, S_host>>

\* a file of a record host, msg, level, time and a record level, pid, time,
\* msg has been opened, its known tags being time, level, msg, host, pid
C11_Witness ==
    /\ pc = "ready"
    /\ Len(index) = 2
    /\ SourceLines[1][3] = "h"
    /\ knownTags = <<S_time, S_level, S_msg, S_host, S_pid>>

\* C17: when Filter runs with the regexp operator and a mask that does not
\* compile, on a view in which a visible line has the filter's tag, the
\* derived view is empty and File.Err() is non-nil when Filter returns
C17_RegexpErrorRecorded ==
    (/\ pc = "ready"
     /\ ret.op = "Filter"
     /\ ret.q.op = "regexp"
     /\ ret.q.mask = BadPattern
     /\ \E n \in AllLines : HasTag(n, ret.q.tag)) =>
        /\ views[ret.res].index = <<>>
        /\ err # "nil"

\* the part of C17 the code keeps: no line matches a mask that does not
\* compile
C17_BadPatternMatchesNothing ==
    (pc = "ready" /\ ret.op = "Filter" /\ ret.q.op = "regexp" /\ ret.q.mask = BadPattern) =>
        views[ret.res].index = <<>>
-----------------------------------------------------------------------------
(* record accesses on files with lines that are no JSON object *)

ErrLines == 2

\* the fields of the well-formed record of these files, and the record
RecordPairs == << <<S_time, <<"1">>>>, <<S_level, S_info>>, <<S_msg, <<"a">>>> >>

PairsRecord(ps) ==
    [k \in {ps[i][1] : i \in DOMAIN ps} |-> ps[CHOOSE i \in DOMAIN ps : ps[i][1] = k][2]]

\* lines that are no JSON object: plain bytes, an object cut short, an object
\* with bytes after it, a JSON string
MalformedLines ==
    { <<"a", "b">>,
      <<"{", QT, "a", QT, ":">>,
      Encode(RecordPairs) \o <<"a">>,
      <<QT, "a", QT>> }

ErrSources == SourcesOf({Encode(RecordPairs)} \cup MalformedLines, ErrLines)

InitErr == \E src \in ErrSources : Opened(src)

ErrFilter == CallFilter({LevelEqInfo})

NextErr == ErrFilter \/ CallItem

SpecErr == InitErr /\ [][NextErr]_vars

C18_WitnessMalformed ==
    /\ pc = "ready"
    /\ Len(views) >= 2
    /\ ret.op = "item"
    /\ SourceLines[ret.n + 1] \in MalformedLines
-----------------------------------------------------------------------------
(* The terminal front end: keys, commands and the autocomplete overlay *)

ESC == "ESC"
DEL == "DEL"

keyUp == <<ESC, "[", "A">>
keyDown == <<ESC, "[", "B">>
keyRight == <<ESC, "[", "C">>
keyLeft == <<ESC, "[", "D">>
keyPgUp == <<ESC, "[", "5", "~">>
keyPgDn == <<ESC, "[", "6", "~">>
keyHome == <<ESC, "[", "H">>
keyEnd == <<ESC, "[", "F">>

keyEnter == "\r"
keyBackspace == DEL
keyEsc == ESC
keyTab == "\t"

modeNormal == 0
modeRecord == 1

bold == <<ESC, "[", "1", "m">>
reset == <<ESC, "[", "0", "m">>
templBoldSuff(a, suff) == bold \o a \o reset \o suff
templBoldFull(pref, a, suff) == pref \o bold \o a \o reset \o suff

\* unicode.IsPrint(rune(c)) of one byte
IsPrint(c) == CodeOf[c] >= CodeOf[" "] /\ CodeOf[c] <= CodeOf["~"]

Digits == {"0", "1", "2", "3", "4", "5", "6", "7", "8", "9"}
Letters == {Ascii[i] : i \in UpperFirst..(UpperFirst + 25)} \cup
           {Ascii[i] : i \in LowerFirst..(LowerFirst + 25)}

\* s[from:] of a Go string, from 0-based
StrFrom(s, from) == SubSeq(s, from + 1, Len(s))
\* s[:to]
StrTo(s, to) == SubSeq(s, 1, to)

\* strings.Split(s, "/")
RECURSIVE SplitSlashFrom(_, _, _, _)
SplitSlashFrom(s, i, cur, parts) ==
    IF i > Len(s) THEN Append(parts, cur)
    ELSE IF s[i] = "/" THEN SplitSlashFrom(s, i + 1, <<>>, Append(parts, cur))
    ELSE SplitSlashFrom(s, i + 1, Append(cur, s[i]), parts)

SplitSlash(s) == SplitSlashFrom(s, 1, <<>>, <<>>)

\* strconv.Atoi of a string of digits
RECURSIVE AtoiFrom(_, _, _)
AtoiFrom(s, i, n) ==
    IF i > Len(s) THEN n
    ELSE AtoiFrom(s, i + 1, 10 * n + (CodeOf[s[i]] - CodeOf["0"]))

Atoi(s) == AtoiFrom(s, 1, 0)

(* options *)

\* term.options == nil
NoOptions == [nil |-> TRUE]

\* &options{...}: current, replace and prefix start as zero values
MakeOptions(opts, replace) ==
    [nil |-> FALSE, options |-> opts, current |-> 0, replace |-> replace, prefix |-> <<>>]

option(name, command) == [name |-> name, command |-> command, visible |-> FALSE]

newOptionsFromArray(opts, appendSlash) ==
    MakeOptions([i \in DOMAIN opts |->
                    option(opts[i], IF appendSlash THEN opts[i] \o <<"/">> ELSE opts[i])],
                FALSE)

\* newOptions(name, command)
newOptions(name, command) == MakeOptions(<<option(name, command)>>, FALSE)

\* the loop of options.next from curr on; the loop has no state but curr, so
\* a run of more than len(o.options) + 2 passes has been in one state twice
\* and never ends
RECURSIVE nextLoop(_, _, _)
nextLoop(o, curr, passes) ==
    IF curr = o.current THEN [o |-> o, hang |-> FALSE]
    ELSE IF passes > Len(o.options) + 2 THEN [o |-> o, hang |-> TRUE]
    ELSE LET c == IF curr >= Len(o.options) THEN 0 ELSE curr
         IN  IF o.options[c + 1].visible
             THEN [o |-> [o EXCEPT !.current = c], hang |-> FALSE]
             ELSE nextLoop(o, c + 1, passes + 1)

\* options.next: [o, hang]
next(o) ==
    IF Len(o.options) = 0 THEN [o |-> o, hang |-> FALSE]
    ELSE nextLoop(o, o.current + 1, 0)

RECURSIVE prevLoop(_, _, _)
prevLoop(o, curr, passes) ==
    IF curr = o.current THEN [o |-> o, hang |-> FALSE]
    ELSE IF passes > Len(o.options) + 2 THEN [o |-> o, hang |-> TRUE]
    ELSE LET c == IF curr < 0 THEN Len(o.options) - 1 ELSE curr
         IN  IF o.options[c + 1].visible
             THEN [o |-> [o EXCEPT !.current = c], hang |-> FALSE]
             ELSE prevLoop(o, c - 1, passes + 1)

\* options.prev: [o, hang]
prev(o) ==
    IF Len(o.options) = 0 THEN [o |-> o, hang |-> FALSE]
    ELSE prevLoop(o, o.current - 1, 0)

\* term.selectCurrentOption
selectCurrentOption(t) ==
    IF t.options.current = -1 \/ t.options.current >= Len(t.options.options) THEN t
    ELSE [t EXCEPT !.command = (IF t.options.replace THEN <<>> ELSE t.command)
                               \o t.options.options[t.options.current + 1].command,
                   !.options = NoOptions]

\* the loop of showOptions from option i (1-based) on: [o, count]
RECURSIVE showLoop(_, _, _)
showLoop(o, i, count) ==
    IF i > Len(o.options) THEN [o |-> o, count |-> count]
    ELSE IF o.prefix # <<>> /\ ~Contains(o.options[i].name, o.prefix)
    THEN showLoop([o EXCEPT !.options[i].visible = FALSE], i + 1, count)
    ELSE showLoop([o EXCEPT !.options[i].visible = TRUE,
                            !.current = IF @ = -1 THEN i - 1 ELSE @],
                  i + 1, count + 1)

\* term.showOptions
showOptions(t) ==
    Let(showLoop(t.options, 1, 0),
        LAMBDA r : IF r.count = 1 THEN selectCurrentOption([t EXCEPT !.options = r.o])
                   ELSE [t EXCEPT !.options = r.o])

(* commands *)

S_undefined == <<":", " ", "u", "n", "d", "e", "f", "i", "n", "e", "d", " ",
                 "c", "o", "m", "m", "a", "n", "d">>
S_notFound == <<"n", "o", "t", " ", "f", "o", "u", "n", "d">>
S_nothing == <<"n", "o", "t", "h", "i", "n", "g", " ", "t", "o", " ",
               "s", "e", "a", "r", "c", "h">>
S_fileReadError == <<"f", "i", "l", "e", " ", "r", "e", "a", "d", " ",
                     "e", "r", "r", "o", "r">>
S_pressEnter == <<"P", "r", "e", "s", "s", " ", "E", "N", "T", "E", "R", " ",
                  "t", "o", " ", "c", "o", "n", "t", "i", "n", "u", "e">>
\* fmt.Sprintf("%d", os.Getpid()) of the run
S_getpid == <<"4", "2">>

C_f == <<":", "f">>
C_s == <<":", "s">>
C_p == <<":", "p">>
C_x == <<":", "x">>
C_q == <<":", "q">>
C_slash == <<"/">>
C_quest == <<"?">>
C_goto == <<":", "-", "l", "i", "n", "e", "-", "n", "u", "m", "b", "-">>

\* term.commands as fillCommands leaves it: key -> name (regex is set for
\* C_goto only; optionsFn for C_f and C_s only)
commands ==
    (C_f :> templBoldSuff(<<"f">>, <<"i", "l", "t", "e", "r">>)) @@
    (C_s :> templBoldSuff(<<"s">>, <<"e", "a", "r", "c", "h", "-", "t", "a", "g">>)) @@
    (C_p :> <<>>) @@
    (C_x :> templBoldFull(<<"e">>, <<"x">>, <<"i", "t">>)) @@
    (C_q :> templBoldSuff(<<"q">>, <<"u", "i", "t">>)) @@
    (C_slash :> <<"s", "e", "a", "r", "c", "h", "(", "/", ")">>) @@
    (C_quest :> <<"s", "e", "a", "r", "c", "h", "-", "u", "p", "(", "?", ")">>) @@
    (C_goto :> <<"g", "o", "t", "o">>)

\* regexp.MatchString("^:[0-9]+$", s)
IsGoTo(s) ==
    /\ Len(s) >= 2
    /\ s[1] = ":"
    /\ \A i \in 2..Len(s) : s[i] \in Digits

\* the test of findCommand on the entry cl
commandMatches(cl, command) ==
    IF cl = C_goto THEN IsGoTo(command)
    ELSE Len(command) >= Len(cl) /\ cl = StrTo(command, Len(cl))

\* term.findCommand: the key of the command found, <<>> for nil.  No key is
\* a prefix of another and the regex needs a digit after the colon, so at
\* most one entry matches and the order of the range does not matter
findCommand(t) ==
    IF \E cl \in DOMAIN commands : commandMatches(cl, t.command)
    THEN CHOOSE cl \in DOMAIN commands : commandMatches(cl, t.command)
    ELSE <<>>

\* the entries the loop of fillOptions adds, in whatever order the range runs
OptionKeys(t) ==
    {cl \in DOMAIN commands :
        /\ commands[cl] # <<>>
        /\ Len(t.command) <= Len(cl)
        /\ StrTo(cl, Len(t.command)) = t.command}

(* the term and what its methods do to it, the views and the File: a world *)
(* is [t, vs, fs, out, tagsOrder], out telling whether the call returned    *)
(* ("ok"), panicked or never returns ("hang"), tagsOrder the order in which *)
(* the ranges over records meet the field names that are not known yet      *)

World(t, vs, fs, tagsOrder) ==
    [t |-> t, vs |-> vs, fs |-> fs, out |-> "ok", tagsOrder |-> tagsOrder]

\* the orders a range over a record may meet the not yet known names in
TagsOrders == Perms(Observed \ Range(knownTags))

\* the zero value of searchParams
NoLastSearch ==
    [mask |-> <<>>, idx |-> 0, dir |-> SearchForward, tag |-> <<>>, isRegexp |-> FALSE]

\* &term{f: file, h: h, ...} of startTerm
NewTerm(f, h) ==
    [f |-> f, h |-> h, exit |-> FALSE, current |-> 0, selMask |-> <<>>,
     command |-> <<>>, message |-> <<>>, mode |-> modeNormal,
     lastSearch |-> NoLastSearch, options |-> NoOptions]

\* found of term.drawLine: the known tags from the fourth on that m holds
foundTags(kts, m) == Cardinality({t \in 4..Len(kts) : kts[t] \in DOMAIN m})

\* the known tags after term.drawLine wrote the record m:
\* if found+3 < len(m) { t.f.AddKnownTags(m) }
drawnTags(kts, m, tagsOrder) ==
    IF foundTags(kts, m) + 3 < Cardinality(DOMAIN m)
    THEN AddTagsInOrder(kts, SelectSeq(tagsOrder, LAMBDA k : k \in DOMAIN m), 1)
    ELSE kts

\* term.drawLine once t.f.Line(n) gave r; a nil record is not written
drawLine(w, r) ==
    [w EXCEPT !.fs = IF r.nil THEN r.fs
                     ELSE [r.fs EXCEPT !.knownTags = drawnTags(@, r.m, w.tagsOrder)]]

\* term.drawLine for each n of ns in turn: t.f.Line(n) decodes the record,
\* which sets File.err
RECURSIVE drawLines(_, _, _, _)
drawLines(src, w, ns, i) ==
    IF i > Len(ns) THEN w
    ELSE Let(viewItem(src, w.vs, w.fs, w.t.f, ns[i] + w.vs[w.t.f].pos),
             LAMBDA r : IF r.panic THEN [w EXCEPT !.fs = r.fs, !.out = "panic"]
                        ELSE drawLines(src, drawLine(w, r), ns, i + 1))

\* term.showCurrent: t.f.Line(t.current) and the message
showCurrent(src, w) ==
    Let(viewItem(src, w.vs, w.fs, w.t.f, w.t.current + w.vs[w.t.f].pos),
        LAMBDA r : [w EXCEPT !.fs = r.fs, !.out = IF r.panic THEN "panic" ELSE @,
                             !.t.message = S_pressEnter])

\* the lines 0 .. max-1 of the loop of redraw
redrawRows(w) ==
    LET rest == LinesCount(w.vs, w.fs, w.t.f) - w.vs[w.t.f].pos
        max == IF w.t.h - 1 > rest THEN rest ELSE w.t.h - 1
    IN  [i \in 1..(IF max > 0 THEN max ELSE 0) |-> i - 1]

\* term.redraw
redraw(src, w0) ==
    Let(w0, LAMBDA w : IF w.t.mode = modeNormal THEN drawLines(src, w, redrawRows(w), 1)
                       ELSE showCurrent(src, w))

Position(w) == w.vs[w.t.f].pos
SetPosition(w, pos) == [w EXCEPT !.vs[w.t.f].pos = pos]
Move(w, lines) == [w EXCEPT !.vs[w.t.f].pos = @ + lines]

\* term.home
home(src, w) == redraw(src, [SetPosition(w, 0) EXCEPT !.t.current = 0])

\* end leaving the cursor where it was
endKeepingPosition(src, w) == redraw(src, [w EXCEPT !.t.current = w.t.h - 2])

\* term.end
end(src, w) ==
    redraw(src, [SetPosition(w, LinesCount(w.vs, w.fs, w.t.f) - w.t.h + 1)
                    EXCEPT !.t.current = w.t.h - 2])

\* term.up
up(src, w) ==
    IF Position(w) > 0 /\ w.t.current <= w.t.h \div 2
    THEN drawLines(src, Move(w, -1), <<w.t.current + 1, w.t.current, 0>>, 1)
    ELSE IF w.t.current > 0
    THEN drawLines(src, [w EXCEPT !.t.current = @ - 1],
                   <<w.t.current, w.t.current - 1>>, 1)
    ELSE w

\* term.down
down(src, w) ==
    IF /\ Position(w) + w.t.h - 2 < LinesCount(w.vs, w.fs, w.t.f) - 1
       /\ w.t.current >= w.t.h \div 2
    THEN drawLines(src, Move(w, 1), <<w.t.current - 1, w.t.current, w.t.h - 2>>, 1)
    ELSE IF w.t.current < w.t.h - 2
    THEN drawLines(src, [w EXCEPT !.t.current = @ + 1],
                   <<w.t.current, w.t.current + 1>>, 1)
    ELSE w

\* term.pgUp
pgUp(src, w) ==
    Let(Move(w, 2 - w.t.h),
        LAMBDA m : IF Position(m) < 0 THEN home(src, m) ELSE redraw(src, m))

\* term.pgDn
pgDn(src, w) ==
    Let(Move(w, w.t.h - 2),
        LAMBDA m : IF Position(m) + m.t.h - 2 > LinesCount(m.vs, m.fs, m.t.f)
                   THEN end(src, m) ELSE redraw(src, m))

\* term.goToLine
goToLine(src, w, ln) ==
    IF ln >= LinesCount(w.vs, w.fs, w.t.f) THEN end(src, w)
    ELSE IF ln <= 1 THEN home(src, w)
    ELSE IF ln - w.t.h \div 2 - 1 < 0
    THEN redraw(src, [SetPosition(w, 0) EXCEPT !.t.current = ln - 1])
    ELSE redraw(src, [SetPosition(w, ln - w.t.h \div 2 - 1)
                         EXCEPT !.t.current = w.t.h \div 2])

\* one pass of the loop of Search / SearchTag on line from: [fs, nil, found, panic]
searchPass(src, vs, fs, p, from) ==
    IF p.kind = "Search"
    THEN Let(bytes(src, fs, getIndex(vs, p.v, from)),
             LAMBDA b : [fs |-> b.fs, nil |-> ~b.ok,
                         found |-> b.ok /\ Contains(b.b, p.mask), panic |-> FALSE])
    ELSE Let(item(src, fs, getIndex(vs, p.v, from)),
             LAMBDA it : [fs |-> it.fs, nil |-> it.nil,
                          found |-> ~it.nil /\ TagFound(it.m, p.tag, p.mask),
                          panic |-> it.panic])

\* the loop of FileView.Search (kind "Search") or FileView.SearchTag from the
\* line from on: [fs, idx, err, out].  The loop has no state but from, so a
\* run of more than len() + 1 passes has been in one state twice: "hang"
RECURSIVE searchLoop(_, _, _, _, _, _)
searchLoop(src, vs, fs, p, from, passes) ==
    IF passes > len(vs, fs, p.v) + 1
    THEN [fs |-> fs, idx |-> -1, err |-> <<>>, out |-> "hang"]
    ELSE IF getIndexPanics(vs, p.v, from)
    THEN [fs |-> fs, idx |-> -1, err |-> <<>>, out |-> "panic"]
    ELSE Let(searchPass(src, vs, fs, p, from),
             LAMBDA r :
                IF r.panic THEN [fs |-> r.fs, idx |-> -1, err |-> <<>>, out |-> "panic"]
                ELSE IF r.nil
                THEN [fs |-> r.fs, idx |-> -1, err |-> S_fileReadError, out |-> "ok"]
                ELSE IF r.found
                THEN [fs |-> r.fs, idx |-> from, err |-> <<>>, out |-> "ok"]
                ELSE IF p.start = SearchAdvance(from, p.direction)
                THEN [fs |-> r.fs, idx |-> -1, err |-> <<>>, out |-> "ok"]
                ELSE searchLoop(src, vs, r.fs, p,
                                checkIdx(len(vs, r.fs, p.v),
                                         SearchAdvance(from, p.direction)),
                                passes + 1))

\* v.Search(mask, from, direction) for tag = <<>>, v.SearchTag(tag, ...) else
searchView(src, vs, fs, v, tag, mask, from, direction) ==
    searchLoop(src, vs, fs,
               [kind |-> IF tag = <<>> THEN "Search" ELSE "SearchTag", v |-> v,
                tag |-> tag, mask |-> mask, direction |-> direction,
                start |-> checkIdx(len(vs, fs, v), from)],
               checkIdx(len(vs, fs, v), from), 0)

\* the rest of term.search, r being what the search returned in direction dir
searchDone(src, w, dir, r) ==
    IF r.out # "ok" THEN [w EXCEPT !.fs = r.fs, !.out = r.out]
    ELSE IF r.err # <<>> THEN [w EXCEPT !.fs = r.fs, !.t.message = r.err]
    ELSE IF r.idx = -1
    THEN [w EXCEPT !.fs = r.fs, !.t.message = S_notFound,
                   !.t.selMask = IF w.t.lastSearch.tag = <<>> THEN <<>> ELSE @]
    ELSE redraw(src,
                [w EXCEPT !.fs = r.fs,
                          !.t.selMask = IF w.t.lastSearch.tag = <<>>
                                        THEN w.t.lastSearch.mask ELSE @,
                          !.t.lastSearch.idx = IF dir = SearchForward
                                               THEN r.idx + 1 ELSE r.idx - 1,
                          !.vs[w.t.f].pos = IF r.idx - w.t.h \div 2 < 0 THEN 0
                                            ELSE r.idx - w.t.h \div 2,
                          !.t.current = IF r.idx - w.t.h \div 2 < 0 THEN r.idx
                                        ELSE w.t.h \div 2])

\* the direction term.search looks in
searchDir(t, changeDir) == IF changeDir THEN 1 - t.lastSearch.dir ELSE t.lastSearch.dir

\* term.search.  (term.go takes a third result of Search into t.selMask; the
\* Search of file.go has none: the mask of a match is taken for it.)
search(src, w0, changeDir) ==
    Let(w0, LAMBDA w :
        IF w.t.lastSearch.mask = <<>>
        THEN IF w.t.lastSearch.idx = -1 THEN [w EXCEPT !.t.message = S_nothing] ELSE w
        ELSE Let(searchView(src, w.vs, w.fs, w.t.f, w.t.lastSearch.tag,
                            w.t.lastSearch.mask, w.t.lastSearch.idx,
                            searchDir(w.t, changeDir)),
                 LAMBDA r : searchDone(src, w, searchDir(w.t, changeDir), r)))

TagChars == Letters \cup Digits \cup {"_", "-"}
AlphaNum == Letters \cup Digits

\* the operator the fourth group of filterCommandExecute's pattern selects
filterOperator(c) ==
    CASE c = <<"+">> -> "ge"
      [] c = <<"-">> -> "le"
      [] c = <<"!">> -> "ne"
      [] c = <<"$">> -> "regexp"
      [] OTHER -> "eq"

\* whether parts, the text between the slashes, match
\* ^x\/([a-zA-Z0-9_-]+)\/([^\/]*)(\/(ops)?)?$  with x the letter, ops the set
tagValueParts(parts, letter, ops) ==
    /\ Len(parts) \in {3, 4}
    /\ parts[1] = <<letter>>
    /\ parts[2] # <<>>
    /\ \A i \in DOMAIN parts[2] : parts[2][i] \in TagChars
    /\ Len(parts) = 4 => (parts[4] = <<>> \/ parts[4] \in ops)

\* r.FindStringSubmatch(t.command[1:]) != nil
tagValueMatches(command, letter, ops) ==
    Let(SplitSlash(StrFrom(command, 1)), LAMBDA parts : tagValueParts(parts, letter, ops))

\* the groups 1, 2 and 4 of the match
tagValueGroups(command) ==
    Let(SplitSlash(StrFrom(command, 1)),
        LAMBDA parts : [tag |-> parts[2], mask |-> parts[3],
                        op |-> IF Len(parts) = 4 THEN parts[4] ELSE <<>>])

\* t.f = t.f.Up() / t.f.Top(): the views below the one returned are let go
holdView(w, r) == [w EXCEPT !.vs = SubSeq(r.vs, 1, r.res), !.t.f = r.res]

\* t.f = t.f.Filter(Filter{Mask: g.mask, Operator: op, Tag: g.tag})
filterView(src, w, g) ==
    Let(Filter(src, w.vs, w.fs, w.t.f,
               [tag |-> g.tag, mask |-> g.mask, op |-> filterOperator(g.op)]),
        LAMBDA r : IF r.panic THEN [w EXCEPT !.fs = r.fs, !.out = "panic"]
                   ELSE [w EXCEPT !.fs = r.fs, !.vs = Append(w.vs, r.view),
                                  !.t.f = Len(w.vs) + 1])

\* filterCommandExecute
filterCommandExecute(src, w) ==
    IF w.t.command = <<":", "f", "u">> THEN redraw(src, holdView(w, Up(w.vs, w.t.f)))
    ELSE IF w.t.command = <<":", "f", "r">>
    THEN redraw(src, holdView(w, Top(w.vs, w.t.f)))
    ELSE IF tagValueMatches(w.t.command, "f", {<<"+">>, <<"!">>, <<"$">>, <<"-">>})
    THEN Let(filterView(src, w, tagValueGroups(w.t.command)),
             LAMBDA r : IF r.out = "ok" THEN redraw(src, r) ELSE r)
    ELSE redraw(src, w)

\* simpleSearchExecute
simpleSearchExecute(src, w) ==
    search(src,
           [w EXCEPT !.t.lastSearch =
               [mask |-> StrFrom(w.t.command, 1), idx |-> Position(w) + w.t.current,
                dir |-> IF StrTo(w.t.command, 1) = <<"/">> THEN SearchForward
                        ELSE SearchBack,
                tag |-> <<>>, isRegexp |-> FALSE]],
           FALSE)

\* searchCommandExecute
searchCommandExecute(src, w) ==
    IF tagValueMatches(w.t.command, "s", {<<"$">>})
    THEN search(src,
                [w EXCEPT !.t.lastSearch =
                    [mask |-> tagValueGroups(w.t.command).mask,
                     idx |-> Position(w) + w.t.current, dir |-> SearchForward,
                     tag |-> tagValueGroups(w.t.command).tag,
                     isRegexp |-> tagValueGroups(w.t.command).op = <<"$">>]],
                FALSE)
    ELSE [w EXCEPT !.t.lastSearch =
             [NoLastSearch EXCEPT !.idx = Position(w) + w.t.current]]

\* goToExecute
goToExecute(src, w) == goToLine(src, w, Atoi(StrFrom(w.t.command, 1)))

\* an execFn that leaves the term as it is
exitNothing(w) == w

\* the execFn of :x and of :q
exitExecute(w) == [w EXCEPT !.t.exit = TRUE]

\* c.execFn(t) of the command with key cl
execFn(src, w, cl) ==
    CASE cl = C_f -> filterCommandExecute(src, w)
      [] cl = C_s -> searchCommandExecute(src, w)
      [] cl = C_p -> [w EXCEPT !.t.message = S_getpid]
      [] cl \in {C_x, C_q} -> exitExecute(w)
      [] cl \in {C_slash, C_quest} -> simpleSearchExecute(src, w)
      [] OTHER -> goToExecute(src, w)

\* term.execute
execute(src, w) ==
    IF w.t.command = <<>> THEN w
    ELSE IF w.t.command = <<":">> THEN [w EXCEPT !.t.command = <<>>]
    ELSE IF findCommand(w.t) # <<>>
    THEN Let(execFn(src, w, findCommand(w.t)),
             LAMBDA r : IF r.out = "ok" THEN [r EXCEPT !.t.command = <<>>] ELSE r)
    ELSE [w EXCEPT !.t.message = w.t.command \o S_undefined, !.t.command = <<>>]

\* whether parts, the text between the slashes, match
\* ^:f\/([a-zA-Z0-9]*)?(\/([a-zA-Z0-9]*))?$
filterOptionsParts(parts) ==
    /\ Len(parts) \in {2, 3}
    /\ parts[1] = C_f
    /\ \A k \in 2..Len(parts) : \A i \in DOMAIN parts[k] : parts[k][i] \in AlphaNum

\* the rest of filterCommandOptions, parts being the command between slashes
filterOptionsFor(w, parts) ==
    IF ~filterOptionsParts(parts)
    THEN [w EXCEPT !.t.command = <<":", "f", "/">>]
    ELSE IF Len(parts) = 3
    THEN [w EXCEPT !.t.options = [newOptionsFromArray(levels, TRUE)
                                     EXCEPT !.prefix = parts[3]],
                   !.t.command = <<":", "f", "/">> \o parts[2] \o <<"/">>]
    ELSE [w EXCEPT !.t.options = [newOptionsFromArray(w.fs.knownTags, TRUE)
                                     EXCEPT !.prefix = parts[2]],
                   !.t.command = <<":", "f", "/">>]

\* filterCommandOptions
filterCommandOptions(w) ==
    Let(SplitSlash(w.t.command), LAMBDA parts : filterOptionsFor(w, parts))

\* searchCommandOptions
searchCommandOptions(w) ==
    IF w.t.command = <<":", "s", "/">>
    THEN [w EXCEPT !.t.options = newOptionsFromArray(w.fs.knownTags, TRUE)]
    ELSE IF w.t.command = C_s
    THEN [w EXCEPT !.t.options = newOptions(<<"/">>, <<"/">>)]
    ELSE w

\* term.fillOptions, order being the order in which the range over
\* t.commands meets the entries it adds
fillOptions(w, order) ==
    Let(findCommand(w.t),
        LAMBDA c :
           IF c = C_f THEN filterCommandOptions(w)
           ELSE IF c = C_s THEN searchCommandOptions(w)
           ELSE IF c # <<>> THEN w
           ELSE [w EXCEPT !.t.options =
                    MakeOptions([i \in DOMAIN order |->
                                    option(commands[order[i]], order[i])], TRUE)])

\* the outcome r of options.prev or options.next taken into the world
arrowDone(w, r) == [w EXCEPT !.t.options = r.o, !.out = IF r.hang THEN "hang" ELSE @]

\* the part of processCommand for an open overlay
overlayKey(w, cmd) ==
    IF Len(cmd) = 1
    THEN IF cmd[1] = keyEsc THEN [w EXCEPT !.t.options = NoOptions]
         ELSE IF cmd[1] = keyEnter THEN [w EXCEPT !.t = selectCurrentOption(@)]
         ELSE IF cmd[1] = keyBackspace
         THEN IF w.t.options.prefix # <<>>
              THEN [w EXCEPT !.t = showOptions(
                       [@ EXCEPT !.options.prefix = StrTo(@, Len(@) - 1),
                                 !.options.current = -1])]
              ELSE w
         ELSE IF IsPrint(cmd[1])
         THEN [w EXCEPT !.t = showOptions(
                  [@ EXCEPT !.options.prefix = Append(@, cmd[1]),
                            !.options.current = -1])]
         ELSE w
    ELSE IF cmd = keyLeft THEN Let(prev(w.t.options), LAMBDA r : arrowDone(w, r))
    ELSE IF cmd = keyRight THEN Let(next(w.t.options), LAMBDA r : arrowDone(w, r))
    ELSE w

\* the part of processCommand for a chunk of one byte, no overlay open
singleKey(src, w, c, order) ==
    IF c = keyTab THEN fillOptions(w, order)
    ELSE IF c = keyBackspace
    THEN IF w.t.command # <<>> THEN [w EXCEPT !.t.command = StrTo(@, Len(@) - 1)]
         ELSE w
    ELSE IF c = "j" THEN down(src, w)
    ELSE IF c = "k" THEN up(src, w)
    ELSE IF c = "G" THEN end(src, w)
    ELSE IF c = "n" THEN search(src, w, FALSE)
    ELSE IF c = "N" THEN search(src, w, TRUE)
    ELSE IF c \in {":", "/", "?"} THEN [w EXCEPT !.t.command = <<c>>]
    ELSE IF c = keyEnter
    THEN IF w.t.command # <<>> THEN execute(src, w)
         ELSE redraw(src, [w EXCEPT !.t.mode = modeRecord])
    ELSE w

\* the part of processCommand for a chunk of three bytes or more
longKey(src, w, cmd) ==
    IF cmd = keyUp THEN up(src, w)
    ELSE IF cmd = keyDown THEN down(src, w)
    ELSE IF cmd = keyHome THEN home(src, w)
    ELSE IF cmd = keyEnd THEN end(src, w)
    ELSE IF cmd = keyPgUp THEN pgUp(src, w)
    ELSE IF cmd = keyPgDn THEN pgDn(src, w)
    ELSE w

\* processCommand handling the chunk received while a record is shown the
\* way it handles one received in the list
processKeyThrough(src, w, cmd, order) ==
    IF w.t.mode = modeRecord
    THEN Let(redraw(src, [w EXCEPT !.t.mode = modeNormal]),
             LAMBDA r : IF Len(cmd) = 1 THEN singleKey(src, r, cmd[1], order)
                        ELSE longKey(src, r, cmd))
    ELSE IF ~w.t.options.nil THEN overlayKey(w, cmd)
    ELSE IF w.t.command # <<>> /\ IsPrint(cmd[1])
    THEN [w EXCEPT !.t.command = @ \o cmd]
    ELSE IF Len(cmd) = 1 THEN singleKey(src, w, cmd[1], order)
    ELSE IF Len(cmd) >= 3 THEN longKey(src, w, cmd)
    ELSE w

\* processCommand after  t.message = ""
processKey(src, w, cmd, order) ==
    IF w.t.mode = modeRecord THEN redraw(src, [w EXCEPT !.t.mode = modeNormal])
    ELSE IF ~w.t.options.nil THEN overlayKey(w, cmd)
    ELSE IF w.t.command # <<>> /\ IsPrint(cmd[1])
    THEN [w EXCEPT !.t.command = @ \o cmd]
    ELSE IF Len(cmd) = 1 THEN singleKey(src, w, cmd[1], order)
    ELSE IF Len(cmd) >= 3 THEN longKey(src, w, cmd)
    ELSE w

\* term.processCommand(cmd, len(cmd))
processCommand(src, w0, cmd, order) ==
    Let([w0 EXCEPT !.t.message = <<>>], LAMBDA w : processKey(src, w, cmd, order))

\* whether processCommand(cmd) runs the loop of fillOptions over t.commands
RangesCommands(t, cmd) ==
    /\ t.mode = modeNormal
    /\ t.options.nil
    /\ ~(t.command # <<>> /\ IsPrint(cmd[1]))
    /\ cmd = <<keyTab>>
    /\ findCommand(t) = <<>>

\* the orders the range over t.commands may add its entries in
OptionOrders(t, cmd) == IF RangesCommands(t, cmd) THEN Perms(OptionKeys(t)) ELSE {<<>>}

\* the body of the loop of startTerm once the chunk cmd is received
loopBody(src, w, cmd, order) ==
    Let(processCommand(src, w, cmd, order),
        LAMBDA r : IF r.out = "ok" /\ ~r.t.options.nil
                   THEN [r EXCEPT !.t = showOptions(@)] ELSE r)

-----------------------------------------------------------------------------
(* startTerm: the reader task and the main loop *)

\* stand-in for the 256 slots of term.inChan (src/term.go:121), small enough
\* to fill
inChanSize == 2
\* most chunks the reader task reads in a run
MaxReads == 4
\* greatest height of the terminal
MaxHeight == 4
\* longest pending command typed key by key
MaxCommand == 4
\* longest filter prefix of the overlay followed
MaxPrefix == 2
\* farthest the cursor of the view held is followed from line 0
MaxScroll == 5

\* the reader sending its whole buffer
readerChunkWhole(buf, l) == buf

\* dst := make([]byte, l); copy(dst, buf)
readerChunk(buf, l) == SubSeq(buf, 1, l)

\* startTerm up to its loop, stdin being a terminal of height h: raw mode,
\* the term, the first redraw, go term.inputReader()
StartTerm ==
    /\ pc = "ready"
    /\ io.main = "none"
    /\ \E h \in 1..MaxHeight :
         \E tagsOrder \in TagsOrders :
         \E r \in {redraw(source, World(NewTerm(Len(views), h), views, FS, tagsOrder))} :
            /\ term' = r.t
            /\ SetFS(r.fs)
            /\ pc' = IF r.out = "panic" THEN "panic" ELSE pc
            /\ io' = [main |-> IF r.out = "panic" THEN "panic" ELSE "loop",
                      result |-> "none", raw |-> TRUE, reader |-> "read",
                      buf |-> <<"NUL", "NUL", "NUL", "NUL">>, dst |-> <<>>,
                      read |-> <<>>, received |-> <<>>]
    /\ inChan' = <<>>
    /\ ret' = NoRet
    /\ UNCHANGED <<source, off, scan, views, srch, acc>>

\* the reader leaves its loop on seeing t.exit set
ReaderStop ==
    /\ io.main # "none"
    /\ io.reader = "read"
    /\ term.exit
    /\ io' = [io EXCEPT !.reader = "done"]
    /\ UNCHANGED <<source, pc, off, scan, index, cache, items, err, knownTags, views,
                   ret, srch, acc, term, inChan>>

\* t.t.Read(buf) returns the l bytes of chunk.  (t.exit may be set by now:
\* the reader tested it before the read, and reads it without synchronisation.)
ReaderRead(chunks) ==
    /\ io.main # "none"
    /\ io.reader = "read"
    /\ Len(io.read) < MaxReads
    /\ \E chunk \in chunks :
         LET buf == chunk \o SubSeq(io.buf, Len(chunk) + 1, 4)
         IN  io' = [io EXCEPT !.buf = buf, !.dst = readerChunk(buf, Len(chunk)),
                              !.reader = "send", !.read = Append(@, chunk)]
    /\ UNCHANGED <<source, pc, off, scan, index, cache, items, err, knownTags, views,
                   ret, srch, acc, term, inChan>>

\* t.t.Read(buf) fails
ReaderReadFails ==
    /\ io.main # "none"
    /\ io.reader = "read"
    /\ io' = [io EXCEPT !.dst = <<>>, !.reader = "sendLast", !.read = Append(@, <<>>)]
    /\ UNCHANGED <<source, pc, off, scan, index, cache, items, err, knownTags, views,
                   ret, srch, acc, term, inChan>>

\* t.inChan <- dst, once the channel has room; after the empty chunk: break
ReaderSend ==
    /\ io.main # "none"
    /\ io.reader \in {"send", "sendLast"}
    /\ Len(inChan) < inChanSize
    /\ inChan' = Append(inChan, io.dst)
    /\ io' = [io EXCEPT !.reader = IF @ = "send" THEN "read" ELSE "done"]
    /\ UNCHANGED <<source, pc, off, scan, index, cache, items, err, knownTags, views,
                   ret, srch, acc, term>>

\* one pass of the loop of startTerm with buf the chunk received, io1 the
\* tasks once it is received
MainPass(buf, io1) ==
    IF Len(buf) = 0
    THEN /\ io' = [io1 EXCEPT !.main = "returned", !.result = "read error"]
         /\ UNCHANGED <<pc, index, cache, items, err, knownTags, views, term>>
    ELSE \E order \in OptionOrders(term, buf) : \E tagsOrder \in TagsOrders :
         \E r \in {loopBody(source, World(term, views, FS, tagsOrder), buf, order)} :
            /\ (term.options.nil /\ IsPrint(buf[1])) => Len(r.t.command) <= MaxCommand
            /\ ~r.t.options.nil => Len(r.t.options.prefix) <= MaxPrefix
            /\ Len(r.vs) <= MaxViews
            /\ r.vs[r.t.f].pos \in -MaxScroll..MaxScroll
            /\ term' = r.t
            /\ views' = r.vs
            /\ SetFS(r.fs)
            /\ pc' = IF r.out = "panic" THEN "panic" ELSE pc
            /\ io' = [io1 EXCEPT !.main = IF r.out = "ok" THEN @ ELSE r.out]

\* buf := <-term.inChan and the rest of the pass
MainReceive ==
    /\ io.main = "loop"
    /\ ~term.exit
    /\ inChan # <<>>
    /\ MainPass(Head(inChan), [io EXCEPT !.received = Append(@, Head(inChan))])
    /\ inChan' = Tail(inChan)
    /\ ret' = NoRet
    /\ UNCHANGED <<source, off, scan, srch, acc>>

\* the loop ends on term.exit: the deferred terminal.Restore, return nil
MainReturn ==
    /\ io.main = "loop"
    /\ term.exit
    /\ io' = [io EXCEPT !.main = "returned", !.result = "nil", !.raw = FALSE]
    /\ UNCHANGED <<source, pc, off, scan, index, cache, items, err, knownTags, views,
                   ret, srch, acc, term, inChan>>

\* a key of keys is pressed while the reader waits in Read and the channel
\* is empty, and the main loop receives its chunk at once
KeyPressed(keys) ==
    /\ io.main = "loop"
    /\ ~term.exit
    /\ io.reader = "read"
    /\ inChan = <<>>
    /\ \E cmd \in keys :
         /\ MainPass(cmd, io)
         /\ ret' = [op |-> "key", cmd |-> cmd, command |-> term.command]
    /\ inChan' = inChan
    /\ UNCHANGED <<source, off, scan, srch, acc>>

\* the passes of the loop for the bytes of text, typed one by one
RECURSIVE typeKeys(_, _, _, _)
typeKeys(src, w, text, i) ==
    IF i > Len(text) \/ w.out # "ok" THEN w
    ELSE Let(loopBody(src, w, <<text[i]>>, <<>>),
             LAMBDA r : typeKeys(src, r, text, i + 1))

\* a command of cmds is typed byte by byte, none pending and no overlay open
CommandTyped(cmds) ==
    /\ io.main = "loop"
    /\ ~term.exit
    /\ io.reader = "read"
    /\ inChan = <<>>
    /\ term.command = <<>>
    /\ term.options.nil
    /\ term.mode = modeNormal
    /\ \E text \in cmds : \E tagsOrder \in TagsOrders :
       \E r \in {typeKeys(source, World(term, views, FS, tagsOrder), text, 1)} :
         /\ term' = r.t
         /\ views' = r.vs
         /\ SetFS(r.fs)
    /\ ret' = [op |-> "typed"]
    /\ UNCHANGED <<source, pc, off, scan, srch, acc, inChan, io>>

-----------------------------------------------------------------------------
(* the reader task and the main loop running side by side *)

ChanSource == JoinLines(<<LnInfoA, LnErrorB>>, 1)

\* the chunks read: keys of one byte and an arrow key of three
ReadChunks == { <<":">>, <<"x">>, <<"q">>, <<keyEnter>>, keyDown }

InitChan == Opened(ChanSource)

ChanRead == ReaderRead(ReadChunks)

NextChan ==
    StartTerm \/ ChanRead \/ ReaderReadFails \/ ReaderSend \/ ReaderStop
        \/ MainReceive \/ MainReturn

SpecChan == InitChan /\ [][NextChan]_vars

\* the chunk the reader holds and has not sent yet
InHand == IF io.reader \in {"send", "sendLast"} THEN <<io.dst>> ELSE <<>>

\* C13 (as claimed): once startTerm has returned the terminal is out of raw
\* mode, also when it returned on the zero-length chunk of a failed read
C13_ReadFailureRestoresTerminal ==
    (io.main = "returned") => ~io.raw

\* after a failed read the reader sends one zero-length chunk and ends, and
\* the main loop returns on it having received every chunk read before
C13_ReaderSendsOneSentinel ==
    /\ (io.main # "none" /\ io.reader = "done" /\ ~term.exit) =>
          /\ io.read[Len(io.read)] = <<>>
          /\ \A i \in 1..(Len(io.read) - 1) : io.read[i] # <<>>
          /\ io.received \o inChan = io.read
    /\ (io.main = "returned" /\ io.result = "read error") =>
          /\ io.reader = "done"
          /\ io.received = io.read

\* C14: the chunks received by the main loop, then those waiting in the
\* channel, then the one the reader holds, are exactly the chunks read, in
\* the order read (a failed read counting as the zero-length chunk): no
\* chunk is lost, doubled, moved or merged, the channel full or not
C14_ChunksInOrder ==
    (io.main # "none") =>
        /\ io.received \o inChan \o InHand = io.read
        /\ Len(inChan) <= inChanSize

\* the reader is blocked with a chunk in hand on the full channel, the main
\* loop having received chunks before, an arrow key among them
C14_Witness ==
    /\ io.main = "loop"
    /\ io.reader = "send"
    /\ Len(inChan) = inChanSize
    /\ \E i \in DOMAIN io.received : io.received[i] = keyDown

\* the main loop receives Enter, no overlay open and no record shown
EnterReceived ==
    /\ io.main = "loop"
    /\ io'.received # io.received
    /\ Head(inChan) = <<keyEnter>>
    /\ term.mode = modeNormal
    /\ term.options.nil

\* C15: Enter on the pending command :x or :q sets the exit flag; once it is
\* set the main loop receives no chunk and changes nothing but to return nil
\* with the terminal restored; and the flag is only ever set by Enter on a
\* pending command that findCommand resolves to :x or :q
C15_ExitOnQuitCommand ==
    [][/\ (EnterReceived /\ term.command \in {C_x, C_q}) => term'.exit
       /\ (io.main # "none" /\ term.exit) =>
             /\ io'.received = io.received
             /\ term' = term
             /\ io'.main # io.main =>
                   (io'.main = "returned" /\ io'.result = "nil" /\ ~io'.raw)
       /\ (io.main # "none" /\ ~term.exit /\ term'.exit) =>
             (EnterReceived /\ findCommand(term) \in {C_x, C_q})
       /\ (io.main = "none" /\ io'.main # "none") => ~term'.exit]_vars

\* startTerm has returned nil while a chunk is still queued and the reader
\* task has not ended
C15_Witness ==
    /\ io.main = "returned"
    /\ io.result = "nil"
    /\ term.exit
    /\ inChan # <<>>
    /\ io.reader # "done"

-----------------------------------------------------------------------------
(* commands typed and executed *)

CommandSources == SourcesOf({LnInfoA, LnErrorB}, 2)

\* text that is no command (:z), a filter without value part, a tag search
\* without value part
UndefinedCommands ==
    { <<":", "z">>,
      <<":", "f", "/", "m", "s", "g">>,
      <<":", "s", "/", "m", "s", "g">> }

TypedCommands ==
    UndefinedCommands \cup
        { <<":", "f", "/", "l", "e", "v", "e", "l", "/", "i", "n", "f", "o">> }

CommandKeys == { <<keyEnter>>, <<"j">>, <<"G">> }

InitCommand == \E src \in CommandSources : Opened(src)

CommandTyping == CommandTyped(TypedCommands)

CommandKey == KeyPressed(CommandKeys)

NextCommand == StartTerm \/ CommandTyping \/ CommandKey

SpecCommand == InitCommand /\ [][NextCommand]_vars

\* Enter is handled on a pending command, no overlay open, no record shown
EnterOnCommand ==
    /\ io.main = "loop"
    /\ ret'.op = "key"
    /\ ret'.cmd = <<keyEnter>>
    /\ term.mode = modeNormal
    /\ term.options.nil

\* C12 (as claimed): Enter on a pending command that is unrecognized or
\* malformed sets the message to "<command>: undefined command", clears the
\* command and leaves the view held, the views and their cursors, the
\* highlighted row, the last search, the mode and the exit flag as they were
C12_MalformedCommandRejected ==
    [][(EnterOnCommand /\ term.command \in UndefinedCommands) =>
          /\ term'.message = term.command \o S_undefined
          /\ term'.command = <<>>
          /\ term'.f = term.f
          /\ views' = views
          /\ term'.current = term.current
          /\ term'.lastSearch = term.lastSearch
          /\ term'.mode = term.mode
          /\ term'.exit = term.exit]_vars

\* the part that holds: the command is cleared and the view, the cursors,
\* the highlighted row, the mode and the exit flag stay
C12_MalformedCommandCleared ==
    [][(EnterOnCommand /\ term.command \in UndefinedCommands) =>
          /\ term'.command = <<>>
          /\ term'.f = term.f
          /\ views' = views
          /\ term'.current = term.current
          /\ term'.mode = term.mode
          /\ term'.exit = term.exit]_vars

-----------------------------------------------------------------------------
(* jumps to a line by number *)

GoToSources == SourcesOf({LnInfoA}, MaxLines) \ {<<>>}

GoToNumbers == 0..(MaxLines + 2) \cup {10 + MaxLines}

\* the decimal numeral of n
RECURSIVE Decimal(_)
Decimal(n) ==
    IF n < 10 THEN <<Ascii[CodeOf["0"] + n]>>
    ELSE Decimal(n \div 10) \o <<Ascii[CodeOf["0"] + (n % 10)]>>

GoToCommand(n) == <<":">> \o Decimal(n)

GoToKeys == { <<keyEnter>>, <<"j">>, <<"k">>, keyPgDn, keyPgUp }

InitGoTo == \E src \in GoToSources : Opened(src)

GoToTyping == CommandTyped({GoToCommand(n) : n \in GoToNumbers})

GoToKey == KeyPressed(GoToKeys)

NextGoTo == StartTerm \/ GoToTyping \/ GoToKey

SpecGoTo == InitGoTo /\ [][NextGoTo]_vars

\* the number of the highlighted line of the view the term holds
Highlighted(t, vs) == vs[t.f].pos + t.current + 1

\* the line :n is to highlight in a view of count lines
GoToTarget(n, count) == IF n = 0 THEN 1 ELSE IF n > count THEN count ELSE n

\* C16: Enter on the pending command :n, in a view with at least one line,
\* leaves the highlighted line number pos+current+1 equal to n for
\* 1 <= n <= LinesCount, to 1 for n = 0 and to LinesCount for n > LinesCount,
\* whatever the height of the screen and the cursor before
C16_GoToLineHighlightsN ==
    [][\A n \in GoToNumbers :
          (/\ EnterOnCommand
           /\ term.command = GoToCommand(n)
           /\ LinesCount(views, FS, term.f) >= 1) =>
              /\ io'.main = "loop"
              /\ term'.command = <<>>
              /\ Highlighted(term', views') =
                    GoToTarget(n, LinesCount(views, FS, term.f))]_vars

\* :2 has just been executed in a view of three lines or more on a screen
\* of height three or more and highlights line 2
C16_Witness ==
    /\ io.main = "loop"
    /\ ret.op = "key"
    /\ ret.cmd = <<keyEnter>>
    /\ ret.command = GoToCommand(2)
    /\ term.h >= 3
    /\ LinesCount(views, FS, term.f) >= 3
    /\ Highlighted(term, views) = 2

\* a number beyond the last line has just been executed on a screen higher
\* than the view is long and highlights the last line
C16_WitnessBeyond ==
    /\ io.main = "loop"
    /\ ret.op = "key"
    /\ ret.cmd = <<keyEnter>>
    /\ ret.command = GoToCommand(10 + MaxLines)
    /\ term.h > LinesCount(views, FS, term.f) + 1
    /\ Highlighted(term, views) = LinesCount(views, FS, term.f)

-----------------------------------------------------------------------------
(* the autocomplete overlay *)

\* a record with the time field only
LnTimeOnly == Encode(<< <<S_time, <<"1">>>> >>)

OverlaySources == { JoinLines(<<LnInfoA>>, 1), JoinLines(<<LnTimeOnly>>, 1) }

FilterSlash == <<":", "f", "/">>
FilterLevelSlash == FilterSlash \o S_level \o <<"/">>

\* the prefixes typed after :f/ and after :f/level/ before Tab
TagPrefixes == { <<>>, <<"l", "e">>, <<"m", "s">>, <<"e">>, <<"z">> }
LevelPrefixes == { <<>>, <<"w", "a">>, <<"u">>, <<"z">> }

OverlayCommands ==
    {FilterSlash \o p : p \in TagPrefixes} \cup
    {FilterLevelSlash \o p : p \in LevelPrefixes} \cup
    { C_s, <<":", "s", "/">>, <<":">> }

\* Tab on a pending command when no overlay is open; in the overlay Enter,
\* the arrows, Esc, Backspace and letters
OverlayKeys ==
    IF term.options.nil THEN (IF term.command = <<>> THEN {} ELSE { <<keyTab>> })
    ELSE { <<keyEnter>>, keyLeft, keyRight, <<keyEsc>>, <<keyBackspace>>,
           <<"e">>, <<"l">>, <<"z">> }

InitOverlay == \E src \in OverlaySources : Opened(src)

OverlayTyping == CommandTyped(OverlayCommands)

OverlayKey == KeyPressed(OverlayKeys)

NextOverlay == StartTerm \/ OverlayTyping \/ OverlayKey

SpecOverlay == InitOverlay /\ [][NextOverlay]_vars

\* the places of names whose name contains the prefix
MatchingNames(names, prefix) == {i \in DOMAIN names : Contains(names[i], prefix)}

\* a key is handled by the main loop, no record shown
KeyHandled(cmd) ==
    /\ io.main = "loop"
    /\ ret'.op = "key"
    /\ ret'.cmd = cmd
    /\ term.mode = modeNormal

\* the names of the options of the open overlay
OptionNames(o) == [i \in DOMAIN o.options |-> o.options[i].name]

\* the overlay o is closed with the completion of its option i spliced in
SplicedFrom(o, i, command) ==
    /\ term'.options.nil
    /\ term'.command = (IF o.replace THEN <<>> ELSE command) \o o.options[i].command

\* the filter prefix of the overlay o after the one-byte key c
PrefixAfter(o, c) ==
    IF c = keyBackspace THEN SubSeq(o.prefix, 1, Len(o.prefix) - 1)
    ELSE Append(o.prefix, c)

\* C19 (as claimed): when the overlay is shown and exactly one option's name
\* contains the filter prefix, the overlay closes with the completion of
\* that option spliced into the command: on Tab on :f/<prefix> (the options
\* being the known tags), and on a prefix typed or shortened inside the
\* overlay; and the option Enter splices in is one that matches the prefix
C19_SingleMatchIsSpliced ==
    [][/\ \A p \in TagPrefixes :
             (/\ KeyHandled(<<keyTab>>)
              /\ term.options.nil
              /\ term.command = FilterSlash \o p
              /\ Cardinality(MatchingNames(knownTags, p)) = 1) =>
                 /\ term'.options.nil
                 /\ \E i \in MatchingNames(knownTags, p) :
                       term'.command = FilterSlash \o knownTags[i] \o <<"/">>
       /\ \A c \in {"e", "l", "z", keyBackspace} :
             (/\ KeyHandled(<<c>>)
              /\ ~term.options.nil
              /\ (c = keyBackspace => term.options.prefix # <<>>)
              /\ Cardinality(MatchingNames(OptionNames(term.options),
                                           PrefixAfter(term.options, c))) = 1) =>
                 \E i \in MatchingNames(OptionNames(term.options),
                                        PrefixAfter(term.options, c)) :
                    SplicedFrom(term.options, i, term.command)
       /\ (/\ KeyHandled(<<keyEnter>>)
           /\ ~term.options.nil
           /\ term'.options.nil) =>
              \E i \in MatchingNames(OptionNames(term.options), term.options.prefix) :
                 SplicedFrom(term.options, i, term.command)]_vars

\* the part that holds: a prefix typed or shortened inside the overlay that
\* leaves one matching option closes the overlay with that option spliced in
C19_TypedPrefixIsSpliced ==
    [][\A c \in {"e", "l", "z", keyBackspace} :
          (/\ KeyHandled(<<c>>)
           /\ ~term.options.nil
           /\ (c = keyBackspace => term.options.prefix # <<>>)
           /\ Cardinality(MatchingNames(OptionNames(term.options),
                                        PrefixAfter(term.options, c))) = 1) =>
              \E i \in MatchingNames(OptionNames(term.options),
                                     PrefixAfter(term.options, c)) :
                 SplicedFrom(term.options, i, term.command)]_vars

\* C20 (as claimed): in the overlay the handling of a Left or Right arrow
\* key ends, whatever the options and the prefix, and the option highlighted
\* afterwards, if any, is one whose name contains the prefix
C20_ArrowKeysTerminate ==
    [][\A arrow \in {keyLeft, keyRight} :
          (KeyHandled(arrow) /\ ~term.options.nil) =>
             /\ io'.main = "loop"
             /\ ~term'.options.nil
             /\ term'.options.current # -1 =>
                   term'.options.current + 1 \in
                      MatchingNames(OptionNames(term'.options), term'.options.prefix)]_vars

\* the part that holds: with an option highlighted that matches the prefix,
\* an arrow key ends and highlights an option that matches the prefix
C20_ArrowFromMatchTerminates ==
    [][\A arrow \in {keyLeft, keyRight} :
          (/\ KeyHandled(arrow)
           /\ ~term.options.nil
           /\ term.options.current + 1 \in
                 MatchingNames(OptionNames(term.options), term.options.prefix)) =>
             /\ io'.main = "loop"
             /\ term'.options.current + 1 \in
                   MatchingNames(OptionNames(term'.options), term'.options.prefix)]_vars
-----------------------------------------------------------------------------
(* Search and SearchTag on a view without lines, under SpecSearch *)

\* C25: Search and SearchTag on a view with no visible lines (a filter that
\* matched nothing, or the root view of an empty file) return an outcome,
\* not found or an error, for every from and both directions, and read no index
\* entry outside the view's bounds
C25_EmptyViewSearchReturns ==
    (srch.phase # "idle" /\ SearchedLen(srch) = 0) =>
        /\ srch.phase # "panic"
        /\ srch.phase = "done" => srch.res = -1

\* the part of C25 the code keeps: on the root view of an empty file the
\* bounds test of File.bytes and File.item ends the search with an error
C25_EmptyFileSearchFails ==
    (srch.phase # "idle" /\ views[srch.v].nilIndex /\ Len(index) = 0) =>
        /\ srch.phase # "panic"
        /\ srch.phase = "done" => (srch.res = -1 /\ srch.err = "file read error")
-----------------------------------------------------------------------------
(* NewFile on records that lack the time, level or message field, under SpecTags *)

\* C26: NewFile completes for every set of field names observed in the first
\* knownTagsDepth records, also when records lack the time, level or message
\* field: sortKnownTags never writes outside the known-tags list, and the
\* list then holds exactly the observed field names, each once, with no empty
\* placeholder entry
C26_NewFileCompletes ==
    pc \in {"ready", "panic"} =>
        /\ pc = "ready"
        /\ Range(knownTags) = Observed
        /\ Len(knownTags) = Cardinality(Observed)
        /\ \A i \in DOMAIN knownTags : knownTags[i] # <<>>

\* the part of C26 the code keeps: when NewFile returns, the list holds the
\* observed names, each once, and no placeholder
C26_ReturnedListIsExact ==
    pc = "ready" =>
        /\ Range(knownTags) = Observed
        /\ Len(knownTags) = Cardinality(Observed)
        /\ \A i \in DOMAIN knownTags : knownTags[i] # <<>>
-----------------------------------------------------------------------------
(* the record shown in full and the keys that end it *)

RecordSources == { JoinLines(<<LnInfoA, LnErrorB>>, 1), JoinLines(<<LnErrorB>>, 1) }

RecordCommands ==
    { <<"/", "b">>, FilterSlash,
      <<":", "f", "/", "l", "e", "v", "e", "l", "/", "i", "n", "f", "o">> }

\* the keys pressed while a record is shown, in the overlay, on a pending
\* command (Tab on :f/ opens the overlay), and in the list
RecordKeys ==
    IF term.mode = modeRecord
    THEN { <<keyEnter>>, <<keyEsc>>, <<keyTab>>, <<keyBackspace>>, <<"j">>, <<"G">>,
           <<"N">>, <<":">>, <<"q">>, keyDown, keyHome, keyLeft }
    ELSE IF ~term.options.nil THEN { <<keyEnter>>, <<keyEsc>> }
    ELSE IF term.command = FilterSlash THEN { <<keyEnter>>, <<keyTab>> }
    ELSE IF term.command # <<>> THEN { <<keyEnter>> }
    ELSE { <<keyEnter>>, <<"j">>, <<"G">>, <<"n">> }

InitRecord == \E src \in RecordSources : Opened(src)

RecordTyping == CommandTyped(RecordCommands)

RecordKey == KeyPressed(RecordKeys)

NextRecord == StartTerm \/ RecordTyping \/ RecordKey

SpecRecord == InitRecord /\ [][NextRecord]_vars

\* C24: while a record is shown every chunk received, whatever key it
\* carries, switches back to the list and changes nothing else: the command,
\* the overlay, the view held, the cursors of the views, the highlighted row,
\* the last search and the exit flag stay; and a record is shown only after
\* Enter in the list with no pending command and no overlay
C24_RecordModeKeyOnlyLeaves ==
    [][/\ (io.main = "loop" /\ ret'.op = "key" /\ term.mode = modeRecord) =>
             /\ io'.main = "loop"
             /\ term'.mode = modeNormal
             /\ term'.command = term.command
             /\ term'.options = term.options
             /\ term'.f = term.f
             /\ views' = views
             /\ term'.current = term.current
             /\ term'.lastSearch = term.lastSearch
             /\ term'.exit = term.exit
       /\ (io.main # "none" /\ term.mode # modeRecord /\ term'.mode = modeRecord) =>
             /\ ret'.op = "key"
             /\ ret'.cmd = <<keyEnter>>
             /\ term.mode = modeNormal
             /\ term.command = <<>>
             /\ term.options.nil
       /\ (io.main = "none" /\ io'.main # "none") => term'.mode = modeNormal]_vars

\* Tab has been pressed while a record of a filtered view was shown, after a
\* search and with the second row highlighted: the list is back and no
\* overlay is open (in the list Tab on the empty command opens one)
C24_Witness ==
    /\ io.main = "loop"
    /\ ret.op = "key"
    /\ ret.cmd = <<keyTab>>
    /\ ret.command = <<>>
    /\ term.mode = modeNormal
    /\ term.options.nil
    /\ term.f = 2
    /\ term.lastSearch.mask = <<"b">>
    /\ term.current = 1
-----------------------------------------------------------------------------
(* the known tags while lines are drawn: files longer than knownTagsDepth *)

LnHostAll ==
    Encode(<< <<S_time, <<"4">>>>, <<S_level, S_info>>, <<S_msg, <<"d">>>>,
              <<S_host, <<"b">>>> >>)
LnHostPid ==
    Encode(<< <<S_time, <<"4">>>>, <<S_level, S_info>>, <<S_msg, <<"d">>>>,
              <<S_host, <<"b">>>>, <<S_pid, <<"2">>>> >>)
\* records with a field NewFile did not see and without the level field,
\* without any of time, level, msg
LnHostNoLevel == Encode(<< <<S_time, <<"4">>>>, <<S_msg, <<"d">>>>, <<S_host, <<"b">>>> >>)
LnHostOnly == Encode(<< <<S_host, <<"b">>>> >>)

\* knownTagsDepth lines alike, which NewFile looks at, and one more
KnownSources ==
    {JoinLines([i \in 1..knownTagsDepth |-> LnInfoA] \o <<last>>, 1) :
        last \in {LnHostAll, LnHostPid, LnHostNoLevel, LnHostOnly}}
    \cup {JoinLines([i \in 1..knownTagsDepth |-> LnTimeOnly] \o <<LnHostAll>>, 1)}

\* the keys that end in a redraw of the screen
RedrawKeys == { <<"G">>, keyHome, keyPgDn }

KnownKeys == RedrawKeys \cup { <<"j">>, <<"k">> }

InitKnown == \E src \in KnownSources : Opened(src)

KnownKey == KeyPressed(KnownKeys)

NextKnown == StartTerm \/ KnownKey

SpecKnown == InitKnown /\ [][NextKnown]_vars

\* the absolute File lines the rows of a redraw show, t and vs being the term
\* and the views the redraw leaves
RenderedLines(t, vs) ==
    {VisibleAbs(t.f)[vs[t.f].pos + i + 1] :
        i \in {j \in 0..(t.h - 2) :
                 /\ j < LinesCount(vs, FS, t.f) - vs[t.f].pos
                 /\ vs[t.f].pos + j \in 0..(Len(VisibleAbs(t.f)) - 1)}}

\* the screen is drawn anew: by startTerm, or by G, Home or PgDn in the list
ScreenRedrawn ==
    \/ io.main = "none" /\ io'.main = "loop"
    \/ /\ io.main = "loop"
       /\ io'.main = "loop"
       /\ ret'.op = "key"
       /\ ret'.cmd \in RedrawKeys
       /\ term.mode = modeNormal
       /\ term.options.nil
       /\ term.command = <<>>

IsPrefixOf(s, t) == Len(s) <= Len(t) /\ SubSeq(t, 1, Len(s)) = s

NoNameTwice(s) == \A i, j \in DOMAIN s : s[i] = s[j] => i = j

\* C23: after a line is rendered in the list every field name of its record
\* is in the known-tags list, whichever of the time, level and message
\* fields the record has or lacks; after open the list only grows, no name
\* being removed or moved, and never holds a name twice
C23_RenderedTagsKnown ==
    [][/\ ScreenRedrawn =>
             \A n \in RenderedLines(term', views') :
                DOMAIN RecordOf(n) \subseteq Range(knownTags')
       /\ IsPrefixOf(knownTags, knownTags')
       /\ NoNameTwice(knownTags')]_vars

\* the part of C23 the code keeps: the list only grows and holds no name
\* twice, and the field names of a rendered record that has the time, level
\* and message fields are in it
C23_KnownTagsOnlyGrow ==
    [][/\ ScreenRedrawn =>
             \A n \in RenderedLines(term', views') :
                Range(tagNames) \subseteq DOMAIN RecordOf(n) =>
                    DOMAIN RecordOf(n) \subseteq Range(knownTags')
       /\ IsPrefixOf(knownTags, knownTags')
       /\ NoNameTwice(knownTags')]_vars
-----------------------------------------------------------------------------
(* searches and their repeats by n and N *)

\* every file of MaxLines lines that hold info or not
RepeatSources ==
    {JoinLines(ls, 1) : ls \in [1..MaxLines -> {LnInfoA, LnErrorB}]}

RepeatCommands == { <<"/">> \o S_info, <<"?">> \o S_info, <<"/", "z">> }

\* Enter on the pending search; in the list the repeats and the cursor keys
RepeatKeys ==
    IF term.command # <<>> THEN { <<keyEnter>> }
    ELSE { <<"n">>, <<"N">>, <<"j">>, <<"k">> }

InitRepeat == \E src \in RepeatSources : Opened(src)

RepeatTyping == CommandTyped(RepeatCommands)

RepeatKey == KeyPressed(RepeatKeys)

NextRepeat == StartTerm \/ RepeatTyping \/ RepeatKey

SpecRepeat == InitRepeat /\ [][NextRepeat]_vars

\* the last step was a search by / or ?, or its repeat by n, and it found a
\* line: that line is highlighted
SearchSucceeded ==
    /\ io.main = "loop"
    /\ ret.op = "key"
    /\ \/ /\ ret.cmd = <<keyEnter>>
          /\ ret.command # <<>>
          /\ ret.command[1] \in {"/", "?"}
       \/ ret.cmd = <<"n">> /\ ret.command = <<>>
    /\ term.mode = modeNormal
    /\ term.lastSearch.mask # <<>>
    /\ term.message = <<>>

\* whether line p of the view the term holds has the mask of the last search
HasLastMask(p) ==
    Contains(SourceLines[VisibleAbs(term.f)[p + 1] + 1], term.lastSearch.mask)

\* the nearest line with the mask after line i in the direction dir, around
\* the ends of the view; i itself when no other line has it
NearestAfter(i, dir) ==
    LET n == Len(VisibleAbs(term.f))
    IN  CircularAt(n, i, dir,
                   CHOOSE k \in 1..n :
                      /\ HasLastMask(CircularAt(n, i, dir, k))
                      /\ \A j \in 1..(k - 1) : ~HasLastMask(CircularAt(n, i, dir, j)))

\* C22: after a search that found and highlighted line i of the view, n
\* moves the highlight to the nearest line with the mask after i in the
\* direction of the last search, around the ends, and N to the nearest one
\* in the other direction; the highlight stays on i only if no other line
\* has the mask, and the line highlighted then is the one the search returned
C22_RepeatSearchMovesOn ==
    [][(SearchSucceeded /\ ret'.op = "key" /\ ret'.cmd \in { <<"n">>, <<"N">> }) =>
          /\ io'.main = "loop"
          /\ term'.message = <<>>
          /\ Highlighted(term', views') - 1 =
                NearestAfter(Highlighted(term, views) - 1,
                             IF ret'.cmd = <<"n">> THEN term.lastSearch.dir
                             ELSE 1 - term.lastSearch.dir)]_vars

\* the part of C22 the code keeps: n after a search that found line i goes to
\* the nearest line with the mask after i in the direction of the search
C22_RepeatSameDirection ==
    [][(SearchSucceeded /\ ret'.op = "key" /\ ret'.cmd = <<"n">>) =>
          /\ io'.main = "loop"
          /\ term'.message = <<>>
          /\ Highlighted(term', views') - 1 =
                NearestAfter(Highlighted(term, views) - 1, term.lastSearch.dir)]_vars
-----------------------------------------------------------------------------
(* the cursor under navigation, jumps, searches and changes of view *)

NavSources == { JoinLines(<<LnInfoA>>, 1), JoinLines(<<LnErrorB, LnInfoA>>, 1) }

NavCommands ==
    { GoToCommand(2), <<"/", "b">>,
      <<":", "f", "/", "l", "e", "v", "e", "l", "/", "i", "n", "f", "o">>,
      <<":", "f", "u">> }

\* Enter on the pending command; in the list the navigation keys
NavKeys ==
    IF term.command # <<>> THEN { <<keyEnter>> }
    ELSE { <<"j">>, <<"k">>, <<"G">>, keyPgUp, keyPgDn, keyHome }

InitNav == \E src \in NavSources : Opened(src)

NavTyping == CommandTyped(NavCommands)

NavKey == KeyPressed(NavKeys)

NextNav == StartTerm \/ NavTyping \/ NavKey

SpecNav == InitNav /\ [][NextNav]_vars

\* C21: after any sequence of navigation keys, jumps to a line, searches and
\* changes of view, on any file and height of the screen, the cursor of the
\* view held is not negative and, the view having a line, the highlighted
\* line pos+current is a line of the view: 0 <= pos+current < LinesCount
C21_HighlightOnExistingLine ==
    io.main = "loop" =>
        /\ views[term.f].pos >= 0
        /\ LinesCount(views, FS, term.f) >= 1 =>
              /\ 0 <= views[term.f].pos + term.current
              /\ views[term.f].pos + term.current < LinesCount(views, FS, term.f)

====
